---- MODULE Spec2Model ----
\* Verification model of the cart-panel web component (magic-spells/cart-panel):
\* the CartItem widget state machine and the CartPanel controller with its
\* add/update/remove reconciliation, checked against the remote cart service
\* and the browser's event loop (animation frames, timers, user events).
EXTENDS Integers, Sequences, FiniteSets, TLC

\* ---------------------------------------------------------------------------
\* Bounds
\* ---------------------------------------------------------------------------
MaxOps == 3        \* operations after connection: refreshes, intents, other clients
MaxWidgets == 4    \* cart-item elements ever created
MaxLen == 2        \* items of a snapshot given to the calculated-field functions
MaxRec == 3        \* items of a cart given to a single reconciliation
MaxCalls == 2      \* direct method calls on one element
MaxDialogCalls == 4  \* calls of show and hide on one cart-dialog
MaxEmitterCalls == 4 \* calls of on, off and emit on one emitter

VisibleKeys == {"a", "b"}
HiddenKeys == {"h"}
Keys == VisibleKeys \cup HiddenKeys
\* keys of the carts given to a single reconciliation
RecKeys == {"a", "b", "c", "h"}
Quantities == {1, 2}
Prices == {1}
UnitPrice == [k \in Keys \cup RecKeys |-> IF k = "a" THEN 1 ELSE 2]

\* JavaScript values of a line-item property: absent, or a string.
Undefined == "<undefined>"
PropVals == {Undefined, "", "false"}
Truthy(v) == v \notin {Undefined, ""}
\* line_price absent from the item (item.line_price || 0)
NoPrice == -1

\* no transition has been triggered on the element yet
NoLag == -1

VARIABLES
  server,           \* the cart service's cart: sequence of line items
  currentCart,      \* CartPanel.#currentCart
  isInitialRender,  \* CartPanel.#isInitialRender
  widgets,          \* every CartItem created so far, indexed by creation number
  dom,              \* children of [data-content-cart-items], in document order
  rafQueue,         \* callbacks registered with requestAnimationFrame
  addTimers,        \* pending setTimeout(..., 100) of #addItemsToDOM
  rmTimers,         \* pending setTimeout(() => _.remove(), 600) of destroyYourself
  inflight,         \* requests to the cart service that have not resolved
  nOps,             \* operations started so far
  emitted,          \* notifications emitted by the most recent step
  panelState,       \* cart-panel state attribute
  shownCount,       \* text of [data-content-cart-count]
  shownSubtotal,    \* number shown by [data-content-cart-subtotal], in cents
  rec,              \* what the most recent step's reconciliation invoked
  calcIn,           \* snapshot given to the calculated-field functions
  calcOut,          \* their result
  manual,           \* cart-panel has the manual attribute
  connected,        \* cart-panel's connectedCallback has run
  host,             \* the dialog-panel ancestor, if any
  http,             \* one call of getCart / updateCartItem and its outcome
  unit,             \* one cart-item driven through its public methods
  dialog,           \* one cart-dialog (CartDialog) and its animation frames
  emitter           \* one EventEmitter: its listeners and its last call

vars == <<server, currentCart, isInitialRender, widgets, dom,
          rafQueue, addTimers, rmTimers, inflight, nOps, emitted,
          panelState, shownCount, shownSubtotal, rec, calcIn, calcOut,
          manual, connected, host, http, unit, dialog, emitter>>

\* ---------------------------------------------------------------------------
\* Sequence helpers
\* ---------------------------------------------------------------------------
Range(s) == {s[i] : i \in 1..Len(s)}

RECURSIVE SumSeq(_)
SumSeq(s) == IF s = <<>> THEN 0 ELSE Head(s) + SumSeq(Tail(s))

MapSeq(s, F(_)) == [i \in 1..Len(s) |-> F(s[i])]

\* s without the elements equal to x
Without(s, x) == SelectSeq(s, LAMBDA y : y # x)

\* s with x inserted right after position i (0: at the front)
InsertAfter(s, i, x) == SubSeq(s, 1, i) \o <<x>> \o SubSeq(s, i + 1, Len(s))

\* index of the first element of s satisfying P, 0 if none
FirstIndex(s, P(_)) ==
  IF \E i \in 1..Len(s) : P(s[i])
  THEN CHOOSE i \in 1..Len(s) : P(s[i]) /\ \A j \in 1..(i - 1) : ~P(s[j])
  ELSE 0

\* ---------------------------------------------------------------------------
\* Line items and snapshots
\* ---------------------------------------------------------------------------
\* The line item the cart service holds for key k at quantity q.
ServerItem(k, q) ==
  [key |-> k, quantity |-> q, line_price |-> q * UnitPrice[k],
   hide |-> IF k \in HiddenKeys THEN "true" ELSE Undefined,
   ignore |-> Undefined]

Snapshot(items) == [error |-> FALSE, items |-> items]
ErrorResult == [error |-> TRUE, items |-> <<>>]
NoCart == [error |-> TRUE, items |-> <<>>, null |-> TRUE]

\* item.key || item.id
itemKey(item) == IF Truthy(item.key) THEN item.key ELSE item.id

\* JavaScript values are written as strings; a number is written with this
\* prefix, so that the number 1 and the string "1" are different values.
NumberIds == {"number:1"}

\* setAttribute(name, value) stores String(value)
ToAttribute(value) == IF value = "number:1" THEN "1" ELSE value

\* CartPanel.#getVisibleCartItems
getVisibleCartItems(cartData) ==
  SelectSeq(cartData.items, LAMBDA item : ~Truthy(item.hide))

\* Variant: the subtotal taken over the visible items only.
addCalculatedFields_visibleOnly(cartData) ==
  LET visibleItems == getVisibleCartItems(cartData)
      pricedItems == SelectSeq(visibleItems, LAMBDA item : ~Truthy(item.ignore))
      price(item) == IF item.line_price = NoPrice THEN 0 ELSE item.line_price
  IN [error |-> cartData.error, items |-> cartData.items,
      calculated_count |-> SumSeq(MapSeq(visibleItems, LAMBDA item : item.quantity)),
      calculated_subtotal |-> SumSeq(MapSeq(pricedItems, price))]

\* CartPanel.#addCalculatedFields
addCalculatedFields(cartData) ==
  LET visibleItems == getVisibleCartItems(cartData)
      pricedItems == SelectSeq(cartData.items, LAMBDA item : ~Truthy(item.ignore))
      price(item) == IF item.line_price = NoPrice THEN 0 ELSE item.line_price
  IN [error |-> cartData.error, items |-> cartData.items,
      calculated_count |-> SumSeq(MapSeq(visibleItems, LAMBDA item : item.quantity)),
      calculated_subtotal |-> SumSeq(MapSeq(pricedItems, price))]

\* CartPanel.#renderCartCount: the number written to the count displays
renderCartCount(cartData) ==
  SumSeq(MapSeq(getVisibleCartItems(cartData), LAMBDA item : item.quantity))

\* Variant: the displayed subtotal leaves out the hidden items.
renderCartSubtotal_visibleOnly(cartData) ==
  LET pricedItems ==
        SelectSeq(getVisibleCartItems(cartData), LAMBDA item : ~Truthy(item.ignore))
      price(item) == IF item.line_price = NoPrice THEN 0 ELSE item.line_price
  IN SumSeq(MapSeq(pricedItems, price))

\* CartPanel.#renderCartSubtotal: the cents formatted into the subtotal displays
renderCartSubtotal(cartData) ==
  LET pricedItems == SelectSeq(cartData.items, LAMBDA item : ~Truthy(item.ignore))
      price(item) == IF item.line_price = NoPrice THEN 0 ELSE item.line_price
  IN SumSeq(MapSeq(pricedItems, price))

\* CartPanel.#renderCartPanel: the state attribute
renderCartPanel(cartData) ==
  IF Len(getVisibleCartItems(cartData)) > 0 THEN "has-items" ELSE "empty"

\* ---------------------------------------------------------------------------
\* CartItem
\* ---------------------------------------------------------------------------
States == {"ready", "processing", "destroying", "appearing"}

\* The markup the registered template produces for an item: the documented
\* default template shows the product and a quantity control preset to the
\* item's quantity; the line price is filled in afterwards and is not part
\* of the compared markup.
generateTemplateHTML(item) == <<itemKey(item), item.quantity>>

\* CartItem.setState (with attributeChangedCallback mirroring the attribute
\* into #currentState)
setState(w, state) ==
  IF state \in States
  THEN [w EXCEPT !.state = state,
                 \* only the appearing rule and the inline style set by the
                 \* collapse declare a height transition
                 !.heightTx = @ /\ (w.collapsing \/ state = "appearing"),
                 !.everAppearing = @ \/ state = "appearing"]
  ELSE w

\* CartItem.attributeChangedCallback for the observed state attribute: a
\* changed value is copied into #currentState as it is, an empty one reads
\* as ready.
attributeChangedCallback(w, newValue) ==
  IF newValue = w.state
  THEN w
  ELSE LET value == IF newValue = "" THEN "ready" ELSE newValue
       IN [w EXCEPT !.state = value,
                    !.heightTx = @ /\ (w.collapsing \/ value = "appearing"),
                    !.everAppearing = @ \/ value = "appearing"]

\* CartItem.#updateLinePriceElements: the cents formatted into the
\* [data-content-line-price] elements
shownLinePrice(itemData) ==
  IF itemData.line_price = NoPrice THEN 0 ELSE itemData.line_price

\* Variant: the constructor ignores the animate option.
NewCartItem_neverAnimated(itemData, animate) ==
  [key |-> ToAttribute(itemKey(itemData)),
   state |-> "ready",
   isDestroying |-> FALSE,
   isAppearing |-> FALSE,
   item |-> itemData,
   html |-> generateTemplateHTML(itemData),
   input |-> itemData.quantity,
   linePrice |-> shownLinePrice(itemData),
   heightTx |-> FALSE,
   collapsing |-> FALSE,
   initial |-> FALSE,
   state0 |-> "ready",
   everAppearing |-> FALSE,
   nAnim |-> 0,
   nDetach |-> 0,
   pinnedNow |-> FALSE,
   appearLag |-> NoLag,
   destroyLag |-> NoLag]

\* new CartItem(itemData, cartData, {animate}) followed by connectedCallback,
\* up to the point where the first animation frame is requested
NewCartItem(itemData, animate) ==
  [key |-> ToAttribute(itemKey(itemData)),
   state |-> IF animate THEN "appearing" ELSE "ready",
   isDestroying |-> FALSE,
   isAppearing |-> animate,
   item |-> itemData,
   html |-> generateTemplateHTML(itemData),
   input |-> itemData.quantity,
   linePrice |-> shownLinePrice(itemData),
   heightTx |-> FALSE,
   collapsing |-> FALSE,
   initial |-> FALSE,
   state0 |-> IF animate THEN "appearing" ELSE "ready",
   everAppearing |-> animate,
   nAnim |-> 0,
   nDetach |-> 0,
   pinnedNow |-> FALSE,
   appearLag |-> NoLag,
   destroyLag |-> NoLag]

\* Variant: the content is rendered again whether or not the markup changed.
setData_alwaysRenders(w, itemData) ==
  LET newHTML == generateTemplateHTML(itemData)
      w1 == [w EXCEPT !.item = itemData]
  IN [setState(w1, "ready") EXCEPT !.key = ToAttribute(itemKey(itemData)),
                                   !.html = newHTML,
                                   !.input = itemData.quantity,
                                   !.linePrice = shownLinePrice(itemData)]

\* CartItem.setData
setData(w, itemData) ==
  LET newHTML == generateTemplateHTML(itemData)
      w1 == [w EXCEPT !.item = itemData]
  IN IF newHTML = w.html
     THEN \* #updateQuantityInput
          [setState(w1, "ready") EXCEPT !.input = itemData.quantity]
     ELSE \* #render, #queryDOM, #updateLinePriceElements
          [setState(w1, "ready") EXCEPT !.key = ToAttribute(itemKey(itemData)),
                                        !.html = newHTML,
                                        !.input = itemData.quantity,
                                        !.linePrice = shownLinePrice(itemData)]

\* The part of the page the rendering code works on, passed through the
\* operators below: st.widgets, st.dom, st.rafQueue, st.addTimers,
\* st.rmTimers, st.isInitialRender, st.rec.
NoRec == [op |-> "none", el |-> 0, kind |-> "none", currentItems |-> <<>>,
          clean |-> TRUE, destroyed |-> {}, again |-> {}, updated |-> {}, created |-> {},
          toAdd |-> <<>>, inserts |-> <<>>, removed |-> {}]

Page == [widgets |-> widgets, dom |-> dom, rafQueue |-> rafQueue,
         addTimers |-> addTimers, rmTimers |-> rmTimers,
         isInitialRender |-> isInitialRender, rec |-> NoRec]

\* Element.remove()
remove(st, el) ==
  IF el \in Range(st.dom)
  THEN [st EXCEPT !.dom = Without(@, el),
                  !.widgets[el].heightTx = FALSE,
                  !.widgets[el].nDetach = @ + 1]
  ELSE st

\* Variant: destroyYourself without the #isDestroying guard.
destroyYourself_unguarded(st, el) ==
  LET w == setState(st.widgets[el], "destroying")
  IN [st EXCEPT !.widgets[el] = [w EXCEPT !.isDestroying = TRUE,
                                          !.nAnim = @ + 1],
                !.rafQueue = Append(@, [kind |-> "destroy", el |-> el]),
                !.rec.again = @ \cup (IF st.widgets[el].isDestroying THEN {el} ELSE {})]

\* CartItem.destroyYourself
destroyYourself(st, el) ==
  IF st.widgets[el].isDestroying
  THEN [st EXCEPT !.rec.again = @ \cup {el}]
  ELSE LET w == setState(st.widgets[el], "destroying")
       IN [st EXCEPT !.widgets[el] = [w EXCEPT !.isDestroying = TRUE,
                                               !.nAnim = @ + 1],
                     !.rafQueue = Append(@, [kind |-> "destroy", el |-> el])]

\* Variant: the removal frame arms no fallback timer.
runCallback_noFallback(st, cb) ==
  LET w == st.widgets[cb.el]
  IN CASE cb.kind = "appear1" ->
            [st EXCEPT !.widgets[cb.el].heightTx =
                         @ \/ w.state = "appearing" \/ w.collapsing,
                       !.widgets[cb.el].pinnedNow = TRUE,
                       !.rafQueue = Append(@, [kind |-> "appear2", el |-> cb.el])]
       [] cb.kind = "appear2" ->
            [st EXCEPT !.widgets[cb.el] =
                         [setState(w, "ready")
                            EXCEPT !.appearLag = IF w.pinnedNow THEN 0 ELSE 1]]
       [] OTHER ->
            [st EXCEPT !.widgets[cb.el].heightTx = TRUE,
                       !.widgets[cb.el].collapsing = TRUE,
                       !.widgets[cb.el].pinnedNow = TRUE,
                       !.widgets[cb.el].destroyLag = 0]

\* One callback registered with requestAnimationFrame.
runCallback(st, cb) ==
  LET w == st.widgets[cb.el]
  IN CASE cb.kind = "appear1" ->
            \* _.style.height = scrollHeight; request the second frame
            [st EXCEPT !.widgets[cb.el].heightTx =
                         @ \/ w.state = "appearing" \/ w.collapsing,
                       !.widgets[cb.el].pinnedNow = TRUE,
                       !.rafQueue = Append(@, [kind |-> "appear2", el |-> cb.el])]
       [] cb.kind = "appear2" ->
            [st EXCEPT !.widgets[cb.el] =
                         [setState(w, "ready")
                            EXCEPT !.appearLag = IF w.pinnedNow THEN 0 ELSE 1]]
       [] OTHER ->
            \* destroy: lock the height (style.height = initialHeight), then
            \* in the same callback set the transition and style.height = 0px,
            \* and arm the fallback
            LET locked == [w EXCEPT !.pinnedNow = TRUE]
            IN [st EXCEPT !.widgets[cb.el] =
                            [locked EXCEPT !.heightTx = TRUE,
                                           !.collapsing = TRUE,
                                           !.destroyLag =
                                              IF locked.pinnedNow THEN 0 ELSE 1],
                          !.rmTimers = Append(@, cb.el)]

\* The frame is over: what its callbacks wrote to style.height is committed
endFrame(st) ==
  [st EXCEPT !.widgets = [el \in DOMAIN @ |-> [@[el] EXCEPT !.pinnedNow = FALSE]]]

RECURSIVE runFrame(_, _)
runFrame(st, cbs) ==
  IF cbs = <<>> THEN endFrame(st)
  ELSE runFrame(runCallback(st, Head(cbs)), Tail(cbs))

\* CartItem.#handleTransitionEnd for a height transition
handleTransitionEnd(st, el) ==
  LET w == st.widgets[el]
      st1 == [st EXCEPT !.widgets[el].heightTx = FALSE]
  IN IF w.isDestroying THEN remove(st1, el)
     ELSE IF w.isAppearing THEN [st1 EXCEPT !.widgets[el].isAppearing = FALSE]
     ELSE st1

\* ---------------------------------------------------------------------------
\* CartPanel: rendering
\* ---------------------------------------------------------------------------
domKeys(st) == {st.widgets[el].key : el \in Range(st.dom)}

\* itemsToRemove.forEach((item) => item.destroyYourself())
RECURSIVE destroyEach(_, _)
destroyEach(st, els) ==
  IF els = <<>> THEN st
  ELSE destroyEach(destroyYourself(st, Head(els)), Tail(els))

\* Variant: every rendered item is torn down, whether or not its key stays.
removeItemsFromDOM_all(st, newKeysSet) ==
  LET currentItems == st.dom
      itemsToRemove == currentItems
      st1 == destroyEach(st, itemsToRemove)
  IN [st1 EXCEPT !.rec.destroyed = Range(itemsToRemove)]

\* CartPanel.#removeItemsFromDOM
removeItemsFromDOM(st, newKeysSet) ==
  LET currentItems == st.dom
      itemsToRemove ==
        SelectSeq(currentItems, LAMBDA el : st.widgets[el].key \notin newKeysSet)
      st1 == destroyEach(st, itemsToRemove)
  IN [st1 EXCEPT !.rec.destroyed = Range(itemsToRemove)]

\* visibleItems.find((item) => (item.key || item.id) === key): its index, 0 if none
findItem(visibleItems, key) ==
  FirstIndex(visibleItems, LAMBDA item : itemKey(item) = key)

\* existingItems.forEach(... if (updatedItemData) cartItemEl.setData(...))
RECURSIVE updateEach(_, _, _)
updateEach(st, els, visibleItems) ==
  IF els = <<>> THEN st
  ELSE LET el == Head(els)
           i == findItem(visibleItems, st.widgets[el].key)
           st1 == IF i = 0 THEN st
                  ELSE [st EXCEPT !.widgets[el] = setData(@, visibleItems[i]),
                                  !.rec.updated = @ \cup {el}]
       IN updateEach(st1, Tail(els), visibleItems)

\* CartPanel.#updateItemsInDOM
updateItemsInDOM(st, cartData) ==
  updateEach(st, st.dom, getVisibleCartItems(cartData))

\* CartPanel.#addItemsToDOM: only schedules the insertion. The callback of a
\* timer with nothing to add changes nothing when it fires, so such a timer is
\* not kept among the pending ones.
addItemsToDOM(st, itemsToAdd, newKeys) ==
  IF itemsToAdd = <<>>
  THEN st
  ELSE [st EXCEPT !.addTimers = Append(@, [itemsToAdd |-> itemsToAdd, newKeys |-> newKeys,
                                           \* the elements step 1 has torn down
                                           removed |-> st.rec.destroyed]),
                  !.rec.toAdd = MapSeq(itemsToAdd, itemKey)]

\* itemsContainer.appendChild(new CartItem(itemData, cartData)) for each item
RECURSIVE appendEach(_, _)
appendEach(st, items) ==
  IF items = <<>> THEN st
  ELSE LET el == Len(st.widgets) + 1
           cartItem == [NewCartItem(Head(items), FALSE) EXCEPT !.initial = TRUE]
       IN appendEach([st EXCEPT !.widgets = Append(@, cartItem),
                                !.dom = Append(@, el),
                                !.rec.created = @ \cup {el}],
                     Tail(items))

\* itemsContainer.innerHTML = ''
RECURSIVE clearContainer(_)
clearContainer(st) ==
  IF st.dom = <<>> THEN st ELSE clearContainer(remove(st, Head(st.dom)))

\* Variant: without a rendered predecessor the item is always appended.
insertItem_noFirstCase(st, itemData, newKeys) ==
  LET el == Len(st.widgets) + 1
      cartItem == NewCartItem(itemData, TRUE)
      targetIndex == FirstIndex(newKeys, LAMBDA k : k = itemKey(itemData))
      \* querySelector(`cart-item[key="${prevKey}"]`)
      rendered(i) == ToAttribute(newKeys[i]) \in domKeys(st)
      \* nearest preceding key that has an element in the container
      prev == IF \E i \in 1..(targetIndex - 1) : rendered(i)
              THEN CHOOSE i \in 1..(targetIndex - 1) :
                     rendered(i) /\ \A j \in (i + 1)..(targetIndex - 1) : ~rendered(j)
              ELSE 0
      \* querySelector returns the first matching element in document order
      insertAfter ==
        IF prev = 0 THEN 0
        ELSE FirstIndex(st.dom, LAMBDA e : st.widgets[e].key = ToAttribute(newKeys[prev]))
      newDom == IF insertAfter # 0 THEN InsertAfter(st.dom, insertAfter, el)
                ELSE Append(st.dom, el)
  IN [st EXCEPT !.widgets = Append(@, cartItem),
                !.dom = newDom,
                !.rafQueue = Append(@, [kind |-> "appear1", el |-> el]),
                !.rec.inserts =
                   Append(@, [el |-> el, newKeys |-> newKeys,
                              before |-> st.dom, after |-> newDom,
                              \* attached elements not in a destroy cycle
                              live |-> {e \in Range(st.dom) :
                                          ~st.widgets[e].isDestroying}])]

\* One iteration of the loop in the timer callback of #addItemsToDOM.
insertItem(st, itemData, newKeys) ==
  LET el == Len(st.widgets) + 1
      cartItem == NewCartItem(itemData, TRUE)
      targetIndex == FirstIndex(newKeys, LAMBDA k : k = itemKey(itemData))
      \* querySelector(`cart-item[key="${prevKey}"]`)
      rendered(i) == ToAttribute(newKeys[i]) \in domKeys(st)
      \* nearest preceding key that has an element in the container
      prev == IF \E i \in 1..(targetIndex - 1) : rendered(i)
              THEN CHOOSE i \in 1..(targetIndex - 1) :
                     rendered(i) /\ \A j \in (i + 1)..(targetIndex - 1) : ~rendered(j)
              ELSE 0
      \* querySelector returns the first matching element in document order
      insertAfter ==
        IF prev = 0 THEN 0
        ELSE FirstIndex(st.dom, LAMBDA e : st.widgets[e].key = ToAttribute(newKeys[prev]))
      newDom == IF targetIndex = 1 THEN <<el>> \o st.dom
                ELSE IF insertAfter # 0 THEN InsertAfter(st.dom, insertAfter, el)
                ELSE Append(st.dom, el)
  IN [st EXCEPT !.widgets = Append(@, cartItem),
                !.dom = newDom,
                !.rafQueue = Append(@, [kind |-> "appear1", el |-> el]),
                !.rec.inserts =
                   Append(@, [el |-> el, newKeys |-> newKeys,
                              before |-> st.dom, after |-> newDom,
                              \* attached elements not in a destroy cycle
                              live |-> {e \in Range(st.dom) :
                                          ~st.widgets[e].isDestroying}])]

RECURSIVE insertEach(_, _, _)
insertEach(st, items, newKeys) ==
  IF items = <<>> THEN st
  ELSE insertEach(insertItem(st, Head(items), newKeys), Tail(items), newKeys)

\* Variant: the new items are inserted at once, before the removals.
renderCartItems_addFirst(st, cartData) ==
  LET visibleItems == getVisibleCartItems(cartData)
  IN IF st.isInitialRender
     THEN [appendEach([clearContainer(st) EXCEPT !.rec.kind = "initial"], visibleItems)
             EXCEPT !.isInitialRender = FALSE]
     ELSE LET currentKeys == domKeys(st)
              newKeys == MapSeq(visibleItems, itemKey)
              clean == \A el \in Range(st.dom) : ~st.widgets[el].isDestroying
              st0 == [st EXCEPT !.rec.kind = "diff", !.rec.currentItems = st.dom,
                                !.rec.clean = clean]
              itemsToAdd ==
                SelectSeq(visibleItems, LAMBDA item : itemKey(item) \notin currentKeys)
              added == insertEach(st0, itemsToAdd, newKeys)
              st1 == removeItemsFromDOM(added, Range(newKeys))
          IN updateItemsInDOM(st1, cartData)

\* Variant: the bulk render leaves #isInitialRender set.
renderCartItems_staysInitial(st, cartData) ==
  LET visibleItems == getVisibleCartItems(cartData)
  IN IF st.isInitialRender
     THEN appendEach([clearContainer(st) EXCEPT !.rec.kind = "initial"], visibleItems)
     ELSE LET currentKeys == domKeys(st)
              newKeys == MapSeq(visibleItems, itemKey)
              clean == \A el \in Range(st.dom) : ~st.widgets[el].isDestroying
              st0 == [st EXCEPT !.rec.kind = "diff", !.rec.currentItems = st.dom,
                                !.rec.clean = clean]
              st1 == removeItemsFromDOM(st0, Range(newKeys))
              st2 == updateItemsInDOM(st1, cartData)
              itemsToAdd ==
                SelectSeq(visibleItems, LAMBDA item : itemKey(item) \notin currentKeys)
          IN addItemsToDOM(st2, itemsToAdd, newKeys)

\* CartPanel.#renderCartItems
renderCartItems(st, cartData) ==
  LET visibleItems == getVisibleCartItems(cartData)
  IN IF st.isInitialRender
     THEN [appendEach([clearContainer(st) EXCEPT !.rec.kind = "initial"], visibleItems)
             EXCEPT !.isInitialRender = FALSE]
     ELSE LET currentKeys == domKeys(st)
              newKeys == MapSeq(visibleItems, itemKey)
              clean == \A el \in Range(st.dom) : ~st.widgets[el].isDestroying
              st0 == [st EXCEPT !.rec.kind = "diff", !.rec.currentItems = st.dom,
                                !.rec.clean = clean]
              st1 == removeItemsFromDOM(st0, Range(newKeys))
              st2 == updateItemsInDOM(st1, cartData)
              itemsToAdd ==
                SelectSeq(visibleItems, LAMBDA item : itemKey(item) \notin currentKeys)
          IN addItemsToDOM(st2, itemsToAdd, newKeys)

\* ---------------------------------------------------------------------------
\* The cart service
\* ---------------------------------------------------------------------------
hasKey(items, k) == \E i \in 1..Len(items) : items[i].key = k

\* POST /cart/change.json {id: key, quantity}: quantity 0 removes the line
changeItem(items, k, q) ==
  IF q = 0
  THEN SelectSeq(items, LAMBDA item : item.key # k)
  ELSE [i \in 1..Len(items) |->
          IF items[i].key = k THEN ServerItem(k, q) ELSE items[i]]

\* A pending fetch; id tells apart requests that are otherwise equal, sent is
\* the state the originating item is in when the request goes out.
Request(kind, k, q, el) ==
  LET used == {r.id : r \in inflight}
      id == CHOOSE i \in 0..Cardinality(inflight) :
              i \notin used /\ \A j \in 0..(i - 1) : j \in used
  IN [id |-> id, kind |-> kind, key |-> k, quantity |-> q, el |-> el,
      sent |-> "none",
      done |-> FALSE, resp |-> ErrorResult]

\* The getCart() of the refreshCart() that connectedCallback starts.
ConnectRequest ==
  [id |-> 0, kind |-> "get", key |-> "", quantity |-> 0, el |-> 0,
   sent |-> "none", done |-> FALSE, resp |-> ErrorResult]

\* ---------------------------------------------------------------------------
\* Initial state
\* ---------------------------------------------------------------------------
InitCarts ==
  {<<ServerItem("a", 1), ServerItem("b", 1), ServerItem("h", 1)>>}

InitPanel ==
  /\ currentCart = NoCart
  /\ isInitialRender = TRUE
  /\ widgets = <<>>
  /\ dom = <<>>
  /\ rafQueue = <<>>
  /\ addTimers = <<>>
  /\ rmTimers = <<>>
  /\ nOps = 0
  /\ emitted = <<>>
  /\ panelState = "unset"
  /\ shownCount = 0
  /\ shownSubtotal = 0
  /\ rec = NoRec

NoCalc == [done |-> FALSE, fields |-> addCalculatedFields(Snapshot(<<>>)),
           count |-> 0, subtotal |-> 0]

\* No dialog-panel ancestor.
NoHost == [present |-> FALSE, open |-> FALSE, trigger |-> "none"]
\* A dialog-panel ancestor, closed.
ClosedHost == [present |-> TRUE, open |-> FALSE, trigger |-> "none"]

\* The focused specifications below drive one function or one element on its
\* own; everywhere else their variables stay at these values.
NoHttp == [kind |-> "none", outcome |-> "none", body |-> <<>>, key |-> "",
           quantity |-> 0, requests |-> 0, settled |-> "pending",
           value |-> ErrorResult]
NoUnit == [op |-> "none", calls |-> 0]
NoDialog == [op |-> "none"]
NoEmitter == [op |-> "none"]

InitUnits ==
  /\ calcIn = Snapshot(<<>>)
  /\ calcOut = NoCalc
  /\ http = NoHttp
  /\ unit = NoUnit
  /\ dialog = NoDialog
  /\ emitter = NoEmitter

\* The page with a constructed cart-panel, with or without the manual
\* attribute, not yet connected.
Init ==
  /\ InitPanel
  /\ inflight = {}
  /\ server \in InitCarts
  /\ manual \in BOOLEAN
  /\ connected = FALSE
  /\ host = NoHost
  /\ InitUnits

\* ---------------------------------------------------------------------------
\* Actions
\* ---------------------------------------------------------------------------
SetPage(st) ==
  /\ widgets' = st.widgets
  /\ dom' = st.dom
  /\ rafQueue' = st.rafQueue
  /\ addTimers' = st.addTimers
  /\ rmTimers' = st.rmTimers
  /\ isInitialRender' = st.isInitialRender
  /\ rec' = st.rec

Display == <<panelState, shownCount, shownSubtotal>>
Calc == <<calcIn, calcOut>>
Config == <<manual, connected, host>>
Units == <<http, unit, dialog, emitter>>

\* Variant: data-changed is emitted before the named notification.
ApplyCart_dataChangedFirst(cartObj, name) ==
  LET st == renderCartItems([Page EXCEPT !.rec.op = name], cartObj)
      cartWithCalculatedFields == addCalculatedFields(cartObj)
  IN /\ Len(st.widgets) <= MaxWidgets
     /\ currentCart' = cartObj
     /\ SetPage(st)
     /\ panelState' = renderCartPanel(cartObj)
     /\ shownCount' = renderCartCount(cartObj)
     /\ shownSubtotal' = renderCartSubtotal(cartObj)
     /\ emitted' = <<[name |-> "data-changed", cart |-> cartWithCalculatedFields],
                     [name |-> name, cart |-> cartWithCalculatedFields]>>

\* Variant: the calculated fields are written into the cart object itself,
\* which is the object just stored.
ApplyCartIn_inPlace(cartObj, name, op, after) ==
  LET st == renderCartItems([Page EXCEPT !.rec.op = op], cartObj)
      cartWithCalculatedFields == addCalculatedFields(cartObj)
  IN /\ Len(st.widgets) <= MaxWidgets
     /\ currentCart' = cartWithCalculatedFields
     /\ SetPage(st)
     /\ panelState' = renderCartPanel(cartObj)
     /\ shownCount' = renderCartCount(cartObj)
     /\ shownSubtotal' = renderCartSubtotal(cartObj)
     /\ emitted' = <<[name |-> name, cart |-> cartWithCalculatedFields],
                     [name |-> "data-changed", cart |-> cartWithCalculatedFields]>>
                    \o after

\* The success path shared by refreshCart and the two intent handlers:
\* store the cart, render items and panel, emit name and data-changed.
\* op names the operation the path is part of, and after is what that
\* operation emits once the path has returned.
ApplyCartIn(cartObj, name, op, after) ==
  LET st == renderCartItems([Page EXCEPT !.rec.op = op], cartObj)
      cartWithCalculatedFields == addCalculatedFields(cartObj)
  IN /\ Len(st.widgets) <= MaxWidgets
     /\ currentCart' = cartObj
     /\ SetPage(st)
     /\ panelState' = renderCartPanel(cartObj)
     /\ shownCount' = renderCartCount(cartObj)
     /\ shownSubtotal' = renderCartSubtotal(cartObj)
     /\ emitted' = <<[name |-> name, cart |-> cartWithCalculatedFields],
                     [name |-> "data-changed", cart |-> cartWithCalculatedFields]>>
                    \o after

ApplyCart(cartObj, name) == ApplyCartIn(cartObj, name, name, <<>>)

\* Variant: the cart is loaded whether or not the manual attribute is set.
Connect_alwaysLoads ==
  /\ ~connected
  /\ connected' = TRUE
  /\ inflight' = inflight \cup {ConnectRequest}
  /\ emitted' = <<>>
  /\ rec' = NoRec
  /\ UNCHANGED <<server, currentCart, isInitialRender, widgets, dom, rafQueue,
                 addTimers, rmTimers, nOps, Display, Calc, manual, host, Units>>

\* CartPanel.connectedCallback: loads the cart at once unless the panel has
\* the manual attribute.
Connect ==
  /\ ~connected
  /\ connected' = TRUE
  /\ inflight' = IF manual THEN inflight ELSE inflight \cup {ConnectRequest}
  /\ emitted' = <<>>
  /\ rec' = NoRec
  /\ UNCHANGED <<server, currentCart, isInitialRender, widgets, dom, rafQueue,
                 addTimers, rmTimers, nOps, Display, Calc, manual, host, Units>>

\* refreshCart() without a cart object: up to the await of getCart()
RefreshFetch ==
  /\ connected
  /\ nOps < MaxOps
  /\ nOps' = nOps + 1
  /\ inflight' = inflight \cup {Request("get", "", 0, 0)}
  /\ emitted' = <<>>
  /\ rec' = NoRec
  /\ UNCHANGED <<server, currentCart, isInitialRender, widgets, dom,
                 rafQueue, addTimers, rmTimers, Display, Calc, Config, Units>>

\* Variant: the cart is fetched although a cart object was given.
RefreshOverride_fetches(cartObj) ==
  /\ connected
  /\ nOps < MaxOps
  /\ nOps' = nOps + 1
  /\ inflight' = inflight \cup {Request("get", "", 0, 0)}
  /\ IF cartObj.error
     THEN /\ emitted' = <<>>
          /\ rec' = [NoRec EXCEPT !.op = "refresh-failed"]
          /\ UNCHANGED <<currentCart, isInitialRender, widgets, dom, rafQueue,
                         addTimers, rmTimers, Display>>
     ELSE ApplyCart(cartObj, "refreshed")
  /\ UNCHANGED <<server, Calc, Config, Units>>

\* refreshCart(cartObj) with a cart object: runs to completion, no fetch
RefreshOverride(cartObj) ==
  /\ connected
  /\ nOps < MaxOps
  /\ nOps' = nOps + 1
  /\ IF cartObj.error
     THEN /\ emitted' = <<>>
          /\ rec' = [NoRec EXCEPT !.op = "refresh-failed"]
          /\ UNCHANGED <<currentCart, isInitialRender, widgets, dom, rafQueue,
                         addTimers, rmTimers, Display>>
     ELSE ApplyCart(cartObj, "refreshed")
  /\ UNCHANGED <<server, inflight, Calc, Config, Units>>

\* The user may operate a control of a rendered item unless the stylesheet
\* disables pointer events on its content (states processing and destroying).
Interactive(el) ==
  /\ el \in Range(dom)
  /\ widgets[el].state \notin {"processing", "destroying"}

\* Variant: the request goes out before the item is set to processing.
Intent_requestFirst(el, quantity, typed) ==
  /\ nOps < MaxOps
  /\ nOps' = nOps + 1
  /\ LET element == [widgets[el] EXCEPT !.input = typed]
         request == [Request("change", element.key, quantity, el)
                       EXCEPT !.sent = element.state]
     IN /\ inflight' = inflight \cup {request}
        /\ widgets' = [widgets EXCEPT ![el] = setState(element, "processing")]
  /\ emitted' = <<>>
  /\ rec' = NoRec
  /\ UNCHANGED <<server, currentCart, isInitialRender, dom, rafQueue,
                 addTimers, rmTimers, Display, Calc, Config, Units>>

\* #handleCartItemRemove / #handleCartItemQuantityChange up to the request:
\* element.setState('processing'), then updateCartItem(cartKey, quantity)
Intent(el, quantity, typed) ==
  /\ nOps < MaxOps
  /\ nOps' = nOps + 1
  /\ LET element == setState([widgets[el] EXCEPT !.input = typed], "processing")
         request == [Request("change", element.key, quantity, el)
                       EXCEPT !.sent = element.state]
     IN /\ widgets' = [widgets EXCEPT ![el] = element]
        /\ inflight' = inflight \cup {request}
  /\ emitted' = <<>>
  /\ rec' = NoRec
  /\ UNCHANGED <<server, currentCart, isInitialRender, dom, rafQueue,
                 addTimers, rmTimers, Display, Calc, Config, Units>>

\* click on [data-action-remove-item]
ClickRemove(el) ==
  /\ Interactive(el)
  /\ Intent(el, 0, widgets[el].input)

\* change of the quantity control to q
QuantityChange(el, q) ==
  /\ Interactive(el)
  /\ q # widgets[el].input
  /\ Intent(el, q, q)

\* The service answers a request with 2xx and the resulting cart.
ServerRespondOk(r) ==
  /\ ~r.done
  /\ r.kind = "change" => hasKey(server, r.key)
  /\ server' = IF r.kind = "change" THEN changeItem(server, r.key, r.quantity)
                ELSE server
  /\ inflight' = (inflight \ {r}) \cup
                   {[r EXCEPT !.done = TRUE, !.resp = Snapshot(server')]}
  /\ UNCHANGED <<currentCart, isInitialRender, widgets, dom, rafQueue,
                 addTimers, rmTimers, nOps, Display, Calc, Config, Units>>
  /\ emitted' = <<>>
  /\ rec' = NoRec

\* refreshCart after the await, for a 2xx answer
ResolveRefresh(r) ==
  /\ r.kind = "get" /\ r.done
  /\ ~r.resp.error
  /\ inflight' = inflight \ {r}
  /\ ApplyCart(r.resp, "refreshed")
  /\ UNCHANGED <<server, nOps, Calc, Config, Units>>

\* Variant: the failed result is stored as the current cart.
FailRefresh_stored(r) ==
  /\ r.kind = "get"
  /\ inflight' = inflight \ {r}
  /\ currentCart' = ErrorResult
  /\ emitted' = <<>>
  /\ rec' = [NoRec EXCEPT !.op = "refresh-failed"]
  /\ UNCHANGED <<server, isInitialRender, widgets, dom, rafQueue,
                 addTimers, rmTimers, nOps, Display, Calc, Config, Units>>

\* The fetch fails (network failure or non-2xx, before or after the service
\* acted): the catch of getCart yields {error: true, message} and refreshCart
\* returns it.
FailRefresh(r) ==
  /\ r.kind = "get"
  /\ inflight' = inflight \ {r}
  /\ emitted' = <<>>
  /\ rec' = [NoRec EXCEPT !.op = "refresh-failed"]
  /\ UNCHANGED <<server, currentCart, isInitialRender, widgets, dom, rafQueue,
                 addTimers, rmTimers, nOps, Display, Calc, Config, Units>>

\* the .then of #handleCartItemRemove / #handleCartItemQuantityChange, for a
\* 2xx answer
ResolveChange(r) ==
  /\ r.kind = "change" /\ r.done
  /\ ~r.resp.error
  /\ inflight' = inflight \ {r}
  /\ ApplyCart(r.resp, "updated")
  /\ UNCHANGED <<server, nOps, Calc, Config, Units>>

\* Variant: the failure branch leaves the item in the state it is in.
FailChange_noReset(r) ==
  /\ r.kind = "change"
  /\ inflight' = inflight \ {r}
  /\ emitted' = <<>>
  /\ rec' = [NoRec EXCEPT !.op = "change-failed", !.el = r.el]
  /\ UNCHANGED <<server, currentCart, isInitialRender, widgets, dom, rafQueue,
                 addTimers, rmTimers, nOps, Display, Calc, Config, Units>>

\* the same .then when updateCartItem resolved to {error: true, message}
FailChange(r) ==
  /\ r.kind = "change"
  /\ inflight' = inflight \ {r}
  /\ widgets' = [widgets EXCEPT ![r.el] = setState(@, "ready")]
  /\ emitted' = <<>>
  /\ rec' = [NoRec EXCEPT !.op = "change-failed", !.el = r.el]
  /\ UNCHANGED <<server, currentCart, isInitialRender, dom, rafQueue,
                 addTimers, rmTimers, nOps, Display, Calc, Config, Units>>

\* The browser runs the animation-frame callbacks registered so far.
AnimationFrame ==
  /\ rafQueue # <<>>
  /\ SetPage(runFrame([Page EXCEPT !.rafQueue = <<>>], rafQueue))
  /\ emitted' = <<>>
  /\ UNCHANGED <<server, currentCart, inflight, nOps, Display, Calc, Config, Units>>

\* transitionend for the height of a connected item
TransitionEnd(el) ==
  /\ el \in Range(dom)
  /\ widgets[el].heightTx
  /\ SetPage(handleTransitionEnd(Page, el))
  /\ emitted' = <<>>
  /\ UNCHANGED <<server, currentCart, inflight, nOps, Display, Calc, Config, Units>>

\* The 100 ms timer of #addItemsToDOM fires (timers of equal delay in order).
InsertTimer ==
  /\ addTimers # <<>>
  /\ LET t == Head(addTimers)
         st == insertEach([Page EXCEPT !.addTimers = Tail(@), !.rec.removed = t.removed],
                          t.itemsToAdd, t.newKeys)
     IN /\ Len(st.widgets) <= MaxWidgets
        /\ SetPage(st)
  /\ emitted' = <<>>
  /\ UNCHANGED <<server, currentCart, inflight, nOps, Display, Calc, Config, Units>>

\* The 600 ms fallback timer of destroyYourself fires.
RemoveTimer ==
  /\ rmTimers # <<>>
  /\ SetPage(remove([Page EXCEPT !.rmTimers = Tail(@)], Head(rmTimers)))
  /\ emitted' = <<>>
  /\ UNCHANGED <<server, currentCart, inflight, nOps, Display, Calc, Config, Units>>

\* Another client of the cart service adds a line (newest first).
ExternalAdd(k) ==
  /\ connected
  /\ nOps < MaxOps
  /\ ~hasKey(server, k)
  /\ nOps' = nOps + 1
  /\ server' = <<ServerItem(k, 1)>> \o server
  /\ UNCHANGED <<currentCart, isInitialRender, widgets, dom, rafQueue, addTimers,
                 rmTimers, inflight, Display, Calc, Config, Units>>
  /\ emitted' = <<>>
  /\ rec' = NoRec

\* Another client of the cart service removes a line.
ExternalRemove(k) ==
  /\ connected
  /\ nOps < MaxOps
  /\ hasKey(server, k)
  /\ nOps' = nOps + 1
  /\ server' = changeItem(server, k, 0)
  /\ UNCHANGED <<currentCart, isInitialRender, widgets, dom, rafQueue, addTimers,
                 rmTimers, inflight, Display, Calc, Config, Units>>
  /\ emitted' = <<>>
  /\ rec' = NoRec

Next ==
  \/ Connect
  \/ RefreshFetch
  \/ \E cartObj \in {Snapshot(server), ErrorResult} : RefreshOverride(cartObj)
  \/ \E el \in 1..Len(widgets) : ClickRemove(el)
  \/ \E el \in 1..Len(widgets), q \in Quantities : QuantityChange(el, q)
  \/ \E r \in inflight : ServerRespondOk(r)
  \/ \E r \in inflight : ResolveRefresh(r)
  \/ \E r \in inflight : FailRefresh(r)
  \/ \E r \in inflight : ResolveChange(r)
  \/ \E r \in inflight : FailChange(r)
  \/ AnimationFrame
  \/ \E el \in 1..Len(widgets) : TransitionEnd(el)
  \/ InsertTimer
  \/ RemoveTimer
  \/ \E k \in Keys : ExternalAdd(k)
  \/ \E k \in Keys : ExternalRemove(k)

Spec == Init /\ [][Next]_vars

\* ---------------------------------------------------------------------------
\* The calculated fields as functions of a snapshot
\* ---------------------------------------------------------------------------
CalcItems ==
  [key : {"a"}, quantity : Quantities, line_price : {NoPrice} \cup Prices,
   hide : PropVals, ignore : PropVals]

CalcCarts == UNION {[1..n -> CalcItems] : n \in 0..MaxLen}

InitCalc ==
  /\ InitPanel
  /\ inflight = {}
  /\ server = <<>>
  /\ manual = TRUE /\ connected = FALSE /\ host = NoHost
  /\ calcIn \in {Snapshot(items) : items \in CalcCarts}
  /\ calcOut = NoCalc
  /\ http = NoHttp /\ unit = NoUnit /\ dialog = NoDialog /\ emitter = NoEmitter

\* #renderCartPanel and #addCalculatedFields applied to the snapshot
Calculate ==
  /\ ~calcOut.done
  /\ calcOut' = [done |-> TRUE, fields |-> addCalculatedFields(calcIn),
                 count |-> renderCartCount(calcIn),
                 subtotal |-> renderCartSubtotal(calcIn)]
  /\ UNCHANGED <<server, currentCart, isInitialRender, widgets, dom, rafQueue,
                 addTimers, rmTimers, inflight, nOps, emitted, Display, rec, calcIn,
                 Config, Units>>

NextCalc == Calculate

SpecCalc == InitCalc /\ [][NextCalc]_vars

\* ---------------------------------------------------------------------------
\* One rendered cart reconciled against one snapshot
\* ---------------------------------------------------------------------------
DistinctSeqs(S, n) ==
  {s \in UNION {[1..k -> S] : k \in 0..n} :
     \A i, j \in 1..Len(s) : i # j => s[i] # s[j]}

RecCarts ==
  {MapSeq(s, LAMBDA k : ServerItem(k, 1)) : s \in DistinctSeqs(RecKeys, MaxRec)}

InitialPage ==
  [widgets |-> <<>>, dom |-> <<>>, rafQueue |-> <<>>, addTimers |-> <<>>,
   rmTimers |-> <<>>, isInitialRender |-> TRUE, rec |-> NoRec]

\* The panel after refreshCart(P) on a fresh page; the service holds any cart.
InitRec ==
  /\ server \in RecCarts
  /\ \E P \in RecCarts :
       LET st == renderCartItems(InitialPage, Snapshot(P))
       IN /\ currentCart = Snapshot(P)
          /\ isInitialRender = st.isInitialRender
          /\ widgets = st.widgets
          /\ dom = st.dom
          /\ panelState = renderCartPanel(Snapshot(P))
          /\ shownCount = renderCartCount(Snapshot(P))
          /\ shownSubtotal = renderCartSubtotal(Snapshot(P))
  /\ rafQueue = <<>>
  /\ addTimers = <<>>
  /\ rmTimers = <<>>
  /\ inflight = {}
  /\ nOps = 1
  /\ emitted = <<>>
  /\ rec = NoRec
  /\ manual = TRUE /\ connected = TRUE /\ host = NoHost
  /\ InitUnits

NextRec ==
  \/ \E cartObj \in {Snapshot(server)} : RefreshOverride(cartObj)
  \/ AnimationFrame
  \/ \E el \in 1..Len(widgets) : TransitionEnd(el)
  \/ InsertTimer
  \/ RemoveTimer

SpecRec == InitRec /\ [][NextRec]_vars

\* ---------------------------------------------------------------------------
\* getCart and updateCartItem as functions of what the request meets
\* ---------------------------------------------------------------------------
HttpOutcomes == {"2xx", "2xx-invalid-body", "non-2xx", "network-failure"}

Fulfilled(v) == [settled |-> "fulfilled", value |-> v]
Rejected == [settled |-> "rejected", value |-> ErrorResult]

\* fetch(url, options): rejects only when no response arrives
fetch(outcome) ==
  [requests |-> 1,
   promise |-> IF outcome = "network-failure" THEN Rejected
               ELSE Fulfilled([ok |-> outcome \in {"2xx", "2xx-invalid-body"}])]

\* .then((response) => { if (!response.ok) throw ...; return response.json(); })
onResponse(p, outcome, body) ==
  IF p.settled = "rejected" THEN p
  ELSE IF ~p.value.ok THEN Rejected
  ELSE IF outcome = "2xx-invalid-body" THEN Rejected
  ELSE Fulfilled(Snapshot(body))

\* Variant: no catch handler on the chain.
onError_absent(p) == p

\* .catch((error) => { console.error(...); return { error: true, message }; })
onError(p) ==
  IF p.settled = "rejected" THEN Fulfilled(ErrorResult) ELSE p

\* CartPanel.getCart
getCart(outcome, body) ==
  LET f == fetch(outcome)
  IN [requests |-> f.requests,
      promise |-> onError(onResponse(f.promise, outcome, body))]

\* CartPanel.updateCartItem
updateCartItem(key, quantity, outcome, body) ==
  LET f == fetch(outcome)
  IN [requests |-> f.requests,
      promise |-> onError(onResponse(f.promise, outcome, changeItem(body, key, quantity)))]

InitHttp ==
  /\ InitPanel
  /\ inflight = {}
  /\ server = <<>>
  /\ manual = TRUE /\ connected = FALSE /\ host = NoHost
  /\ calcIn = Snapshot(<<>>) /\ calcOut = NoCalc
  /\ unit = NoUnit /\ dialog = NoDialog /\ emitter = NoEmitter
  /\ \E kind \in {"get", "change"}, outcome \in HttpOutcomes, body \in RecCarts,
        key \in RecKeys, quantity \in {0} \cup Quantities :
       /\ kind = "get" => (key = "a" /\ quantity = 0)
       /\ kind = "change" => hasKey(body, key)
       /\ http = [kind |-> kind, outcome |-> outcome, body |-> body, key |-> key,
                   quantity |-> quantity, requests |-> 0,
                   settled |-> "pending", value |-> ErrorResult]

\* One call, followed to the settling of the promise it returns.
HttpCall ==
  /\ http.settled = "pending"
  /\ LET call == IF http.kind = "get" THEN getCart(http.outcome, http.body)
                  ELSE updateCartItem(http.key, http.quantity, http.outcome, http.body)
     IN http' = [http EXCEPT !.requests = @ + call.requests,
                             !.settled = call.promise.settled,
                             !.value = call.promise.value]
  /\ UNCHANGED <<server, currentCart, isInitialRender, widgets, dom, rafQueue,
                 addTimers, rmTimers, inflight, nOps, emitted, Display, rec, Calc,
                 Config, unit, dialog, emitter>>

NextHttp == HttpCall

SpecHttp == InitHttp /\ [][NextHttp]_vars

\* ---------------------------------------------------------------------------
\* One cart-item driven through its public methods
\* ---------------------------------------------------------------------------
UnitItems ==
  [key : VisibleKeys, quantity : Quantities, line_price : {NoPrice} \cup Prices,
   hide : {Undefined}, ignore : {Undefined}]

\* values handed to setState: the four states and others
StateArgs == States \cup {"removing", "", Undefined}
\* values written to the state attribute
AttrValues == States \cup {"removing", ""}

InitItem ==
  /\ InitPanel
  /\ inflight = {}
  /\ server = <<>>
  /\ manual = TRUE /\ connected = FALSE /\ host = NoHost
  /\ calcIn = Snapshot(<<>>) /\ calcOut = NoCalc
  /\ http = NoHttp /\ dialog = NoDialog /\ emitter = NoEmitter
  /\ \E itemData \in UnitItems, animate \in BOOLEAN :
       LET w == NewCartItem(itemData, animate)
       IN unit = [op |-> "new", calls |-> 0, w |-> w, before |-> w,
                  data |-> itemData, state |-> w.state]

UnitUnchanged ==
  UNCHANGED <<server, currentCart, isInitialRender, widgets, dom, rafQueue,
              addTimers, rmTimers, inflight, nOps, emitted, Display, rec, Calc,
              Config, http, dialog, emitter>>

\* cartItem.setData(itemData)
UnitSetData(itemData) ==
  /\ unit.op # "none" /\ unit.calls < MaxCalls
  /\ unit' = [op |-> "setData", calls |-> unit.calls + 1,
               w |-> setData(unit.w, itemData), before |-> unit.w,
               data |-> itemData, state |-> unit.state]
  /\ UnitUnchanged

\* cartItem.setState(state)
UnitSetState(state) ==
  /\ unit.op # "none" /\ unit.calls < MaxCalls
  /\ unit' = [op |-> "setState", calls |-> unit.calls + 1,
               w |-> setState(unit.w, state), before |-> unit.w,
               data |-> unit.data, state |-> state]
  /\ UnitUnchanged

\* the page writes the state attribute: cartItem.setAttribute('state', value)
UnitSetAttribute(value) ==
  /\ unit.op # "none" /\ unit.calls < MaxCalls
  /\ unit' = [op |-> "setAttribute", calls |-> unit.calls + 1,
               w |-> attributeChangedCallback(unit.w, value), before |-> unit.w,
               data |-> unit.data, state |-> value]
  /\ UnitUnchanged

\* the user sets the quantity control to q without the change being sent yet
UnitType(q) ==
  /\ unit.op # "none" /\ unit.calls < MaxCalls
  /\ unit' = [op |-> "type", calls |-> unit.calls + 1,
               w |-> [unit.w EXCEPT !.input = q], before |-> unit.w,
               data |-> unit.data, state |-> unit.state]
  /\ UnitUnchanged

NextItem ==
  \/ \E itemData \in UnitItems : UnitSetData(itemData)
  \/ \E state \in StateArgs : UnitSetState(state)
  \/ \E value \in AttrValues : UnitSetAttribute(value)
  \/ \E q \in Quantities : UnitType(q)

SpecItem == InitItem /\ [][NextItem]_vars

\* ---------------------------------------------------------------------------
\* CartDialog: show, hide, animation frames and the opacity transition
\* ---------------------------------------------------------------------------
\* the element that opened the panel, if any
Triggers == {"none", "button"}

\* the dialog after its constructor: aria-hidden is true, no trigger, nothing
\* scheduled; the panel inside may carry the hidden class and may hold a
\* focusable element. lastModal is the later of the show and hide
\* notifications emitted so far, emits the notifications of the latest step.
NewCartDialog(hidden, focusable) ==
  [op |-> "new", calls |-> 0, last |-> "none",
   ariaHidden |-> TRUE, hidden |-> hidden, focusable |-> focusable,
   triggerEl |-> "none", expanded |-> FALSE, scrollLocked |-> FALSE,
   frames |-> <<>>, fading |-> FALSE, itemFading |-> FALSE,
   fetches |-> 0, event |-> "none",
   emits |-> <<>>, lastModal |-> "none"]

InitDialog ==
  /\ InitPanel
  /\ inflight = {}
  /\ server = <<>>
  /\ manual = TRUE /\ connected = FALSE /\ host = NoHost
  /\ calcIn = Snapshot(<<>>) /\ calcOut = NoCalc
  /\ http = NoHttp /\ unit = NoUnit /\ emitter = NoEmitter
  /\ \E hidden \in BOOLEAN, focusable \in BOOLEAN :
       dialog = NewCartDialog(hidden, focusable)

DialogUnchanged ==
  UNCHANGED <<server, currentCart, isInitialRender, widgets, dom, rafQueue,
              addTimers, rmTimers, inflight, nOps, emitted, Display, rec, Calc,
              Config, http, unit, emitter>>

\* CartDialog.show(triggerEl): the hidden class goes at once, the rest waits
\* for the next animation frame
DialogShow(triggerEl) ==
  /\ dialog.op # "none" /\ dialog.calls < MaxDialogCalls
  /\ dialog' = [dialog EXCEPT !.op = "show", !.calls = @ + 1, !.last = "show",
                               !.triggerEl = triggerEl,
                               !.hidden = FALSE,
                               !.frames = Append(@, "open"),
                               !.emits = <<>>]
  /\ DialogUnchanged

\* CartDialog.hide(): everything happens at once
DialogHide ==
  /\ dialog.op # "none" /\ dialog.calls < MaxDialogCalls
  /\ dialog' = [dialog EXCEPT !.op = "hide", !.calls = @ + 1, !.last = "hide",
                               !.scrollLocked = FALSE,
                               !.expanded = @ /\ dialog.triggerEl = "none",
                               !.fading = @ \/ (~dialog.ariaHidden /\ ~dialog.hidden),
                               !.ariaHidden = TRUE,
                               !.event = "cart-dialog:hide",
                               !.emits = <<"cart-dialog:hide">>,
                               !.lastModal = "hide"]
  /\ DialogUnchanged

\* the callbacks of one animation frame, in the order they were scheduled;
\* the callbacks they schedule are collected in next for the frame after
RECURSIVE runFrames(_, _, _)
runFrames(d, cbs, next) ==
  IF cbs = <<>>
  THEN [d EXCEPT !.frames = next]
  ELSE IF Head(cbs) = "open"
       THEN runFrames([d EXCEPT !.fading = @ \/ (d.ariaHidden /\ ~d.hidden),
                                !.ariaHidden = FALSE,
                                !.expanded = @ \/ d.triggerEl # "none",
                                !.scrollLocked = TRUE,
                                !.fetches = @ + 1,
                                !.event = "cart-dialog:show",
                                !.emits = Append(@, "cart-dialog:show"),
                                !.lastModal = "show"],
                      Tail(cbs),
                      IF d.focusable THEN Append(next, "focus") ELSE next)
       ELSE IF Head(cbs) = "dist-open"
       THEN \* the bundled build: the scroll lock was taken by show itself
            runFrames([d EXCEPT !.fading = @ \/ (d.ariaHidden /\ ~d.hidden),
                                !.ariaHidden = FALSE,
                                !.expanded = @ \/ d.triggerEl # "none",
                                !.fetches = @ + 1,
                                !.event = "cart-dialog:show",
                                !.emits = Append(@, "cart-dialog:show"),
                                !.lastModal = "show"],
                      Tail(cbs),
                      IF d.focusable THEN Append(next, "focus") ELSE next)
       ELSE IF Head(cbs) = "dist-close"
       THEN \* the bundled build: hide closes in the frame
            runFrames([d EXCEPT !.fading = @ \/ (~d.ariaHidden /\ ~d.hidden),
                                !.ariaHidden = TRUE,
                                !.scrollLocked = FALSE,
                                !.event = "cart-dialog:hide",
                                !.emits = Append(@, "cart-dialog:hide"),
                                !.lastModal = "hide"],
                      Tail(cbs), next)
       ELSE runFrames(d, Tail(cbs), next)

\* the browser runs an animation frame
DialogFrame ==
  /\ dialog.op # "none" /\ dialog.frames # <<>>
  /\ dialog' = [runFrames([dialog EXCEPT !.emits = <<>>], dialog.frames, <<>>)
                  EXCEPT !.op = "frame"]
  /\ DialogUnchanged

\* Variant: the handler does not look at aria-hidden.
handleDialogTransitionEnd_anyState(d, propertyName) ==
  IF propertyName = "opacity"
  THEN [d EXCEPT !.hidden = TRUE,
                 \* display: none ends every transition in the panel
                 !.fading = FALSE, !.itemFading = FALSE,
                 !.event = "cart-dialog:afterHide",
                 !.emits = <<"cart-dialog:afterHide">>]
  ELSE d

\* CartDialog.#handleTransitionEnd, the transitionend listener of the panel
handleDialogTransitionEnd(d, propertyName) ==
  IF propertyName = "opacity" /\ d.ariaHidden
  THEN [d EXCEPT !.hidden = TRUE,
                 \* display: none ends every transition in the panel
                 !.fading = FALSE, !.itemFading = FALSE,
                 !.event = "cart-dialog:afterHide",
                 !.emits = <<"cart-dialog:afterHide">>]
  ELSE d

\* the opacity transition of the panel ends
DialogTransitionEnd ==
  /\ dialog.op # "none" /\ dialog.fading
  /\ dialog' = handleDialogTransitionEnd(
                 [dialog EXCEPT !.op = "transitionend", !.fading = FALSE,
                                !.emits = <<>>], "opacity")
  /\ DialogUnchanged

\* the user operates a control of an item in the open panel (the closed
\* panel has pointer-events: none): the item's content starts to fade
DialogItemIntent ==
  /\ dialog.op # "none"
  /\ ~dialog.ariaHidden /\ ~dialog.hidden
  /\ ~dialog.itemFading
  /\ dialog' = [dialog EXCEPT !.op = "item", !.itemFading = TRUE, !.emits = <<>>]
  /\ DialogUnchanged

\* a transition of an item inside the panel ends and the event bubbles to
\* the panel's listener
DialogItemTransitionEnd(propertyName) ==
  /\ dialog.op # "none" /\ dialog.itemFading
  /\ dialog' = handleDialogTransitionEnd(
                 [dialog EXCEPT !.op = "item-transitionend",
                                !.itemFading = (propertyName # "opacity"),
                                !.emits = <<>>], propertyName)
  /\ DialogUnchanged

NextDialog ==
  \/ \E triggerEl \in Triggers : DialogShow(triggerEl)
  \/ DialogHide
  \/ DialogFrame
  \/ DialogTransitionEnd
  \/ DialogItemIntent
  \/ \E propertyName \in {"opacity", "filter"} : DialogItemTransitionEnd(propertyName)

SpecDialog == InitDialog /\ [][NextDialog]_vars

\* ---------------------------------------------------------------------------
\* CartDialog as bundled in dist/cart-panel.cjs.js
\* ---------------------------------------------------------------------------
\* show(triggerEl): the scroll lock and the hidden class at once, the rest in
\* the next animation frame
DistShow(triggerEl) ==
  /\ dialog.op # "none" /\ dialog.calls < MaxDialogCalls
  /\ dialog' = [dialog EXCEPT !.op = "show", !.calls = @ + 1, !.last = "show",
                               !.triggerEl = triggerEl,
                               !.scrollLocked = TRUE,
                               !.hidden = FALSE,
                               !.frames = Append(@, "dist-open"),
                               !.emits = <<>>]
  /\ DialogUnchanged

\* hide(): the trigger at once, aria-hidden and the scroll lock in the next
\* animation frame
DistHide ==
  /\ dialog.op # "none" /\ dialog.calls < MaxDialogCalls
  /\ dialog' = [dialog EXCEPT !.op = "hide", !.calls = @ + 1, !.last = "hide",
                               !.expanded = @ /\ dialog.triggerEl = "none",
                               !.frames = Append(@, "dist-close"),
                               !.emits = <<>>]
  /\ DialogUnchanged

NextDist ==
  \/ \E triggerEl \in Triggers : DistShow(triggerEl)
  \/ DistHide
  \/ DialogFrame
  \/ DialogTransitionEnd

SpecDist == InitDialog /\ [][NextDist]_vars

\* ---------------------------------------------------------------------------
\* The panel from construction on, with show and hide
\* ---------------------------------------------------------------------------
\* no cart object given
Null == [error |-> FALSE, items |-> <<>>, null |-> TRUE]

InitShow ==
  /\ InitPanel
  /\ inflight = {}
  /\ server \in InitCarts
  /\ manual \in BOOLEAN
  /\ connected = FALSE
  /\ host \in {NoHost, ClosedHost}
  /\ InitUnits

\* CartPanel.show(triggerEl, cartObj)
Show(triggerEl, cartObj) ==
  /\ connected
  /\ nOps < MaxOps
  /\ nOps' = nOps + 1
  /\ IF host.present
     THEN LET event == [name |-> "show", trigger |-> triggerEl]
          IN /\ host' = [host EXCEPT !.open = TRUE, !.trigger = triggerEl]
             /\ IF cartObj = Null
                THEN \* refreshCart suspends at the await of getCart()
                     /\ inflight' = inflight \cup {Request("get", "", 0, 0)}
                     /\ emitted' = <<event>>
                     /\ rec' = [NoRec EXCEPT !.op = "show"]
                     /\ UNCHANGED <<currentCart, isInitialRender, widgets, dom,
                                    rafQueue, addTimers, rmTimers, Display>>
                ELSE /\ ApplyCartIn(cartObj, "refreshed", "show", <<event>>)
                     /\ UNCHANGED inflight
     ELSE \* console.warn only
          /\ emitted' = <<>>
          /\ rec' = [NoRec EXCEPT !.op = "show"]
          /\ UNCHANGED <<host, inflight, currentCart, isInitialRender, widgets, dom,
                         rafQueue, addTimers, rmTimers, Display>>
  /\ UNCHANGED <<server, Calc, manual, connected, Units>>

\* CartPanel.hide()
Hide ==
  /\ connected
  /\ nOps < MaxOps
  /\ nOps' = nOps + 1
  /\ IF host.present
     THEN /\ host' = [host EXCEPT !.open = FALSE]
          /\ emitted' = <<[name |-> "hide", trigger |-> "none"]>>
     ELSE /\ emitted' = <<>>
          /\ UNCHANGED host
  /\ rec' = [NoRec EXCEPT !.op = "hide"]
  /\ UNCHANGED <<server, inflight, currentCart, isInitialRender, widgets, dom,
                 rafQueue, addTimers, rmTimers, Display, Calc, manual, connected,
                 Units>>

NextShow ==
  \/ Connect
  \/ \E triggerEl \in Triggers, cartObj \in {Null, Snapshot(server)} :
       Show(triggerEl, cartObj)
  \/ Hide
  \/ RefreshFetch
  \/ \E r \in inflight : ServerRespondOk(r)
  \/ \E r \in inflight : ResolveRefresh(r)
  \/ \E r \in inflight : FailRefresh(r)
  \/ \E k \in VisibleKeys : ExternalAdd(k)
  \/ \E k \in VisibleKeys : ExternalRemove(k)
  \/ AnimationFrame
  \/ \E el \in 1..Len(widgets) : TransitionEnd(el)
  \/ InsertTimer
  \/ RemoveTimer

SpecShow == InitShow /\ [][NextShow]_vars

\* ---------------------------------------------------------------------------
\* The panel as the only client of a cart service that answers every request
\* ---------------------------------------------------------------------------
NextNet ==
  \/ Connect
  \/ RefreshFetch
  \/ \E el \in 1..Len(widgets) : ClickRemove(el)
  \/ \E el \in 1..Len(widgets), q \in Quantities : QuantityChange(el, q)
  \/ \E r \in inflight : ServerRespondOk(r)
  \/ \E r \in inflight : ResolveRefresh(r)
  \/ \E r \in inflight : ResolveChange(r)
  \/ AnimationFrame
  \/ \E el \in 1..Len(widgets) : TransitionEnd(el)
  \/ InsertTimer
  \/ RemoveTimer

SpecNet == Init /\ [][NextNet]_vars

\* ---------------------------------------------------------------------------
\* The panel given cart objects by the page, with every change request
\* resolving in the end
\* ---------------------------------------------------------------------------
\* cart objects the page hands to refreshCart: the cart as the service had it
\* at some time, with or without line a
PageCarts ==
  {Snapshot(<<ServerItem("a", 1), ServerItem("b", 1), ServerItem("h", 1)>>),
   Snapshot(<<ServerItem("b", 1), ServerItem("h", 1)>>)}

\* the promise of a pending updateCartItem settles
SettleChange ==
  \E r \in inflight : r.kind = "change" /\ (FailChange(r) \/ ResolveChange(r))

\* the panel without the manual attribute: it loads the cart when connected
InitLive ==
  /\ InitPanel
  /\ inflight = {}
  /\ server \in InitCarts
  /\ manual = FALSE
  /\ connected = FALSE
  /\ host = NoHost
  /\ InitUnits

NextLive ==
  \/ Connect
  \/ \E cartObj \in PageCarts : RefreshOverride(cartObj)
  \/ \E el \in 1..Len(widgets) : ClickRemove(el)
  \/ \E r \in inflight : ServerRespondOk(r)
  \/ \E r \in inflight : ResolveRefresh(r)
  \/ \E r \in inflight : FailRefresh(r)
  \/ \E r \in inflight : ResolveChange(r)
  \/ \E r \in inflight : FailChange(r)
  \/ AnimationFrame
  \/ \E el \in 1..Len(widgets) : TransitionEnd(el)
  \/ InsertTimer
  \/ RemoveTimer

SpecLive == InitLive /\ [][NextLive]_vars /\ WF_vars(SettleChange)

\* ---------------------------------------------------------------------------
\* The panel in a browser that keeps running animation frames and timers
\* ---------------------------------------------------------------------------
NextDetach ==
  \/ Connect
  \/ \E cartObj \in PageCarts : RefreshOverride(cartObj)
  \/ \E r \in inflight : ServerRespondOk(r)
  \/ \E r \in inflight : ResolveRefresh(r)
  \/ AnimationFrame
  \/ \E el \in 1..Len(widgets) : TransitionEnd(el)
  \/ InsertTimer
  \/ RemoveTimer

\* requestAnimationFrame callbacks and expired timers are run in the end;
\* nothing makes a transition end
SpecDetach ==
  InitLive /\ [][NextDetach]_vars /\ WF_vars(AnimationFrame) /\ WF_vars(RemoveTimer)

\* ---------------------------------------------------------------------------
\* Answers of the service that are no cart
\* ---------------------------------------------------------------------------
\* A 2xx JSON body that is an object without an items list
NoItems == [error |-> FALSE]

\* The service answers 2xx with such a body
ServerRespondNoItems(r) ==
  /\ ~r.done
  /\ inflight' = (inflight \ {r}) \cup {[r EXCEPT !.done = TRUE, !.resp = NoItems]}
  /\ emitted' = <<>>
  /\ rec' = NoRec
  /\ UNCHANGED <<server, currentCart, isInitialRender, widgets, dom, rafQueue,
                 addTimers, rmTimers, nOps, Display, Calc, Config, Units>>

\* cartData.items.filter(...) in #renderCartSubtotal throws a TypeError when
\* cartData.items is undefined
renderCartSubtotalThrows(cartData) == "items" \notin DOMAIN cartData

\* The statements of the success path up to the throw: the cart is stored,
\* #renderCartItems returns at once, #renderCartPanel sets the state from an
\* empty visible list and #renderCartCount writes 0.
StoreUntilThrow(cartObj) ==
  /\ currentCart' = cartObj
  /\ panelState' = "empty"
  /\ shownCount' = 0
  /\ emitted' = <<>>
  /\ UNCHANGED <<shownSubtotal, isInitialRender, dom, rafQueue, addTimers, rmTimers>>

\* refreshCart after the await, for any 2xx answer: an exception thrown in
\* the async function rejects the promise it returned
ResolveRefreshAny(r) ==
  /\ r.kind = "get" /\ r.done
  /\ ~r.resp.error
  /\ inflight' = inflight \ {r}
  /\ IF renderCartSubtotalThrows(r.resp)
     THEN /\ StoreUntilThrow(r.resp)
          /\ rec' = [NoRec EXCEPT !.op = "refresh-rejected"]
          /\ UNCHANGED widgets
     ELSE ApplyCart(r.resp, "refreshed")
  /\ UNCHANGED <<server, nOps, Calc, Config, Units>>

\* the .then of the intent handlers for any 2xx answer: an exception thrown
\* in it is taken by the .catch that follows, which sets the item to ready
ResolveChangeAny(r) ==
  /\ r.kind = "change" /\ r.done
  /\ ~r.resp.error
  /\ inflight' = inflight \ {r}
  /\ IF renderCartSubtotalThrows(r.resp)
     THEN /\ StoreUntilThrow(r.resp)
          /\ widgets' = [widgets EXCEPT ![r.el] = setState(@, "ready")]
          /\ rec' = [NoRec EXCEPT !.op = "change-caught", !.el = r.el]
     ELSE ApplyCart(r.resp, "updated")
  /\ UNCHANGED <<server, nOps, Calc, Config, Units>>

NextShape ==
  \/ Connect
  \/ RefreshFetch
  \/ \E el \in 1..Len(widgets) : ClickRemove(el)
  \/ \E el \in 1..Len(widgets), q \in Quantities : QuantityChange(el, q)
  \/ \E r \in inflight : ServerRespondOk(r)
  \/ \E r \in inflight : ServerRespondNoItems(r)
  \/ \E r \in inflight : ResolveRefreshAny(r)
  \/ \E r \in inflight : ResolveChangeAny(r)
  \/ \E r \in inflight : FailRefresh(r)
  \/ \E r \in inflight : FailChange(r)
  \/ AnimationFrame
  \/ \E el \in 1..Len(widgets) : TransitionEnd(el)
  \/ InsertTimer
  \/ RemoveTimer

SpecShape == InitLive /\ [][NextShape]_vars

\* ---------------------------------------------------------------------------
\* Items that carry an id and no key
\* ---------------------------------------------------------------------------
\* A line item without key: id is a number, or a string
IdItem(id, q) ==
  [key |-> Undefined, id |-> id, quantity |-> q, line_price |-> q,
   hide |-> Undefined, ignore |-> Undefined]

IdItems ==
  {IdItem(id, q) : id \in NumberIds, q \in Quantities} \cup {IdItem("sku", 1)}

\* Carts of at most MaxLen items with different identities
IdCarts ==
  {s \in UNION {[1..n -> IdItems] : n \in 0..MaxLen} :
     \A i, j \in 1..Len(s) : i # j => itemKey(s[i]) # itemKey(s[j])}

\* The panel after refreshCart(P) on a fresh page
InitId ==
  /\ server = <<>>
  /\ \E P \in IdCarts :
       LET st == renderCartItems(InitialPage, Snapshot(P))
       IN /\ currentCart = Snapshot(P)
          /\ isInitialRender = st.isInitialRender
          /\ widgets = st.widgets
          /\ dom = st.dom
          /\ panelState = renderCartPanel(Snapshot(P))
          /\ shownCount = renderCartCount(Snapshot(P))
          /\ shownSubtotal = renderCartSubtotal(Snapshot(P))
  /\ rafQueue = <<>>
  /\ addTimers = <<>>
  /\ rmTimers = <<>>
  /\ inflight = {}
  /\ nOps = 1
  /\ emitted = <<>>
  /\ rec = NoRec
  /\ manual = TRUE /\ connected = TRUE /\ host = NoHost
  /\ InitUnits

NextId ==
  \/ \E P \in IdCarts : RefreshOverride(Snapshot(P))
  \/ AnimationFrame
  \/ \E el \in 1..Len(widgets) : TransitionEnd(el)
  \/ InsertTimer
  \/ RemoveTimer

SpecId == InitId /\ [][NextId]_vars

\* ---------------------------------------------------------------------------
\* EventEmitter (the listeners behind CartPanel.on, off and #emit)
\* ---------------------------------------------------------------------------
Events == {"cart-panel:updated", "cart-panel:data-changed"}

\* Listener functions of the page: f returns, thrower throws, and once calls
\* off(event, once) on the emitter when it is invoked
Listeners == {"f", "thrower", "once"}

\* EventEmitter.on: the array of the event, with the listener pushed unless
\* the array includes it
on(listeners, listener) ==
  IF listener \in Range(listeners) THEN listeners ELSE Append(listeners, listener)

\* EventEmitter.off: splice(indexOf(listener), 1) on the array of the event
off(listeners, listener) ==
  LET index == FirstIndex(listeners, LAMBDA l : l = listener)
  IN IF index = 0 THEN listeners
     ELSE SubSeq(listeners, 1, index - 1) \o SubSeq(listeners, index + 1, Len(listeners))

\* The loop of EventEmitter.emit: for (i = 0, n = listeners.length; i < n; ++i)
\* over the array itself, each call inside try/catch. listeners[i] is
\* undefined once the array has become shorter than i, and calling apply on
\* it throws a TypeError that the same catch takes.
RECURSIVE emit(_, _, _, _)
emit(listeners, i, n, run) ==
  IF i > n THEN [run EXCEPT !.listeners = listeners]
  ELSE IF i > Len(listeners)
  THEN emit(listeners, i + 1, n, [run EXCEPT !.caught = @ + 1])
  ELSE LET listener == listeners[i]
           called == [run EXCEPT !.log = Append(@, listener)]
       IN emit(IF listener = "once" THEN off(listeners, listener) ELSE listeners,
               i + 1, n,
               IF listener = "thrower" THEN [called EXCEPT !.caught = @ + 1]
               ELSE called)

NoRun == [listeners |-> <<>>, log |-> <<>>, caught |-> 0, escaped |-> FALSE]

InitEmitter ==
  /\ InitPanel
  /\ inflight = {}
  /\ server = <<>>
  /\ manual = TRUE /\ connected = FALSE /\ host = NoHost
  /\ calcIn = Snapshot(<<>>) /\ calcOut = NoCalc
  /\ http = NoHttp /\ unit = NoUnit /\ dialog = NoDialog
  /\ emitter = [op |-> "new", calls |-> 0, event |-> "none",
                events |-> [event \in Events |-> <<>>],
                before |-> <<>>, run |-> NoRun]

EmitterUnchanged ==
  UNCHANGED <<server, currentCart, isInitialRender, widgets, dom, rafQueue,
              addTimers, rmTimers, inflight, nOps, emitted, Display, rec, Calc,
              Config, http, unit, dialog>>

\* cartPanel.on(eventName, callback)
EmitterOn(event, listener) ==
  /\ emitter.calls < MaxEmitterCalls
  /\ emitter' = [emitter EXCEPT !.op = "on", !.calls = @ + 1, !.event = event,
                                !.events[event] = on(@, listener),
                                !.before = <<>>, !.run = NoRun]
  /\ EmitterUnchanged

\* cartPanel.off(eventName, callback)
EmitterOff(event, listener) ==
  /\ emitter.calls < MaxEmitterCalls
  /\ emitter' = [emitter EXCEPT !.op = "off", !.calls = @ + 1, !.event = event,
                                !.events[event] = off(@, listener),
                                !.before = <<>>, !.run = NoRun]
  /\ EmitterUnchanged

\* this.#eventEmitter.emit(eventName, data) in CartPanel.#emit
EmitterEmit(event) ==
  /\ emitter.calls < MaxEmitterCalls
  /\ LET listeners == emitter.events[event]
         run == emit(listeners, 1, Len(listeners), NoRun)
     IN emitter' = [emitter EXCEPT !.op = "emit", !.calls = @ + 1, !.event = event,
                                   !.events[event] = run.listeners,
                                   !.before = listeners, !.run = run]
  /\ EmitterUnchanged

NextEmitter ==
  \/ \E event \in Events, listener \in Listeners : EmitterOn(event, listener)
  \/ \E event \in Events, listener \in Listeners : EmitterOff(event, listener)
  \/ \E event \in Events : EmitterEmit(event)

SpecEmitter == InitEmitter /\ [][NextEmitter]_vars

\* ---------------------------------------------------------------------------
\* Insertion of new items into a rendered list
\* ---------------------------------------------------------------------------
\* Carts the page then passes to refreshCart(cartObj)
InsertCarts ==
  {Snapshot(MapSeq(s, LAMBDA k : ServerItem(k, 1))) :
     s \in {<<>>, <<"c">>, <<"a", "b", "c">>}}

NextInsert ==
  \/ \E cartObj \in InsertCarts : RefreshOverride(cartObj)
  \/ AnimationFrame
  \/ \E el \in 1..Len(widgets) : TransitionEnd(el)
  \/ InsertTimer
  \/ RemoveTimer

\* Any cart rendered first; the service is not asked in these runs.
InitInsert == InitRec /\ server = <<>>

SpecInsert == InitInsert /\ [][NextInsert]_vars

\* ---------------------------------------------------------------------------
\* Items that are connected again while the panel runs
\* ---------------------------------------------------------------------------
\* Variant: the entry animation is started whatever the state.
connectedCallback_alwaysAppears(st, el) ==
  LET w == st.widgets[el]
      rendered == [w EXCEPT !.html = generateTemplateHTML(w.item),
                            !.input = w.item.quantity,
                            !.linePrice = shownLinePrice(w.item)]
  IN [st EXCEPT !.widgets[el] =
                  [attributeChangedCallback(rendered, "appearing")
                     EXCEPT !.isAppearing = TRUE],
                !.rafQueue = Append(@, [kind |-> "appear1", el |-> el])]

\* CartItem.connectedCallback on an element that holds item data: render,
\* then start the entry animation if the state is appearing
connectedCallback(st, el) ==
  LET w == st.widgets[el]
      rendered == [w EXCEPT !.html = generateTemplateHTML(w.item),
                            !.input = w.item.quantity,
                            !.linePrice = shownLinePrice(w.item)]
  IN IF w.state = "appearing"
     THEN [st EXCEPT !.widgets[el] =
                       [attributeChangedCallback(rendered, "appearing")
                          EXCEPT !.isAppearing = TRUE],
                     !.rafQueue = Append(@, [kind |-> "appear1", el |-> el])]
     ELSE [st EXCEPT !.widgets[el] = rendered]

\* The page takes a rendered item out of the list and puts it back where it
\* was: disconnectedCallback, then connectedCallback.
Reconnect(el) ==
  /\ connected
  /\ nOps < MaxOps
  /\ el \in Range(dom)
  /\ nOps' = nOps + 1
  /\ SetPage(connectedCallback([Page EXCEPT !.rec.op = "reconnect", !.rec.el = el], el))
  /\ emitted' = <<>>
  /\ UNCHANGED <<server, currentCart, inflight, Display, Calc, Config, Units>>

NextAppear ==
  \/ Connect
  \/ \E cartObj \in PageCarts : RefreshOverride(cartObj)
  \/ \E el \in 1..Len(widgets) : Reconnect(el)
  \/ \E r \in inflight : ServerRespondOk(r)
  \/ \E r \in inflight : ResolveRefresh(r)
  \/ AnimationFrame
  \/ \E el \in 1..Len(widgets) : TransitionEnd(el)
  \/ InsertTimer
  \/ RemoveTimer

\* requestAnimationFrame callbacks are run in the end
SpecAppear == InitLive /\ [][NextAppear]_vars /\ WF_vars(AnimationFrame)

\* ---------------------------------------------------------------------------
\* Properties
\* ---------------------------------------------------------------------------
visibleKeys(cartData) == MapSeq(getVisibleCartItems(cartData), itemKey)

\* Every scheduled insertion has fired and every removal has completed.
Settled ==
  /\ currentCart # NoCart
  /\ addTimers = <<>>
  /\ \A el \in Range(dom) : ~widgets[el].isDestroying

\* C1: for every item key at most one change request is in flight at any time.
C1_OneRequestPerKey ==
  \A r1, r2 \in inflight :
    (r1.kind = "change" /\ r2.kind = "change" /\ r1.key = r2.key) => r1 = r2

\* C2: the rendered list holds at most one widget per item key.
C2_OneWidgetPerKey ==
  \A i, j \in 1..Len(dom) :
    widgets[dom[i]].key = widgets[dom[j]].key => i = j

\* C3: once insertions and removals have completed, the keys of the rendered
\* widgets are the keys of the visible items of the current snapshot.
C3_RenderedKeysMatchSnapshot ==
  Settled => domKeys(Page) = Range(visibleKeys(currentCart))

\* C4: once insertions and removals have completed, the rendered widgets are
\* in the relative order of their items in the current snapshot's visible list.
C4_RenderedOrderMatchesSnapshot ==
  Settled =>
    LET newKeys == visibleKeys(currentCart)
        pos(el) == FirstIndex(newKeys, LAMBDA k : k = widgets[el].key)
    IN \A i, j \in 1..Len(dom) :
         (i < j /\ pos(dom[i]) # 0 /\ pos(dom[j]) # 0) => pos(dom[i]) <= pos(dom[j])

\* C5: a non-initial reconciliation of a list with no widget mid-removal calls
\* destroyYourself on exactly the widgets whose key left the visible list,
\* setData on exactly those whose key stayed, schedules new widgets for
\* exactly the keys that are new, and neither removes nor recreates a widget
\* whose key stayed.
C5_ReconciliationMinimal ==
  (rec.kind = "diff" /\ rec.clean) =>
    LET P == Range(rec.currentItems)
        N == Range(visibleKeys(currentCart))
        keyOf(el) == widgets[el].key
    IN /\ rec.destroyed = {el \in P : keyOf(el) \notin N}
       /\ rec.updated = {el \in P : keyOf(el) \in N}
       /\ Range(rec.toAdd) = N \ {keyOf(el) : el \in P}
       /\ Len(rec.toAdd) = Cardinality(Range(rec.toAdd))
       /\ rec.created = {}
       /\ dom = rec.currentItems
       /\ \A el \in rec.updated :
            /\ ~widgets[el].isDestroying
            /\ keyOf(el) \notin Range(rec.toAdd)

C5_Witness ==
  /\ rec.kind = "diff" /\ rec.clean
  /\ rec.destroyed # {}
  /\ rec.updated # {}
  /\ rec.toAdd # <<>>

\* C6: a change request that resolves to an error result sets the originating
\* widget to ready and changes nothing else: same markup, same current
\* snapshot, no reconciliation, no notification.
C6_FailureReversion ==
  [][rec'.op = "change-failed" =>
       /\ widgets'[rec'.el].state = "ready"
       /\ widgets'[rec'.el].html = widgets[rec'.el].html
       /\ \A el \in 1..Len(widgets) : el # rec'.el => widgets'[el] = widgets[el]
       /\ Len(widgets') = Len(widgets)
       /\ currentCart' = currentCart
       /\ rec'.kind = "none"
       /\ dom' = dom /\ addTimers' = addTimers /\ rafQueue' = rafQueue
       /\ emitted' = <<>>]_vars

C6_Witness ==
  /\ rec.op = "change-failed"
  /\ currentCart # NoCart
  /\ widgets[rec.el].state = "ready"
  /\ rec.el \in Range(dom)

\* C7: a refresh that fails leaves the current snapshot, the rendered widgets
\* and their states unchanged and emits no notification.
C7_RefreshFailure ==
  [][rec'.op = "refresh-failed" =>
       /\ currentCart' = currentCart
       /\ widgets' = widgets
       /\ dom' = dom /\ addTimers' = addTimers /\ rafQueue' = rafQueue
       /\ isInitialRender' = isInitialRender
       /\ emitted' = <<>>]_vars

C7_Witness ==
  /\ rec.op = "refresh-failed"
  /\ currentCart # NoCart
  /\ dom # <<>>

\* C8: however often destroyYourself is called on a widget, one removal
\* animation is started and one collapse scheduled, the widget is detached at
\* most once, and the is-destroying flag stays set.
C8_IdempotentDestroy ==
  \A el \in 1..Len(widgets) :
    LET w == widgets[el]
        pending == {i \in 1..Len(rafQueue) :
                      rafQueue[i] = [kind |-> "destroy", el |-> el]}
        armed == {i \in 1..Len(rmTimers) : rmTimers[i] = el}
    IN /\ w.nAnim <= 1
       /\ w.nDetach <= 1
       /\ w.isDestroying <=> w.nAnim = 1
       /\ Cardinality(pending) + (IF w.collapsing THEN 1 ELSE 0) = w.nAnim
       /\ Cardinality(armed) <= 1
       /\ el \in rec.again => w.isDestroying

C8_Witness ==
  \E el \in rec.again : widgets[el].nAnim = 1 /\ el \in Range(dom)

\* C9: a widget created by the first reconciliation starts ready and is never
\* appearing; a widget created by a later reconciliation starts appearing.
C9_FirstRenderNoAnimation ==
  \A el \in 1..Len(widgets) :
    /\ widgets[el].initial => (widgets[el].state0 = "ready" /\ ~widgets[el].everAppearing)
    /\ ~widgets[el].initial => widgets[el].state0 = "appearing"

C9_Witness ==
  \E e1, e2 \in Range(dom) :
    /\ widgets[e1].initial /\ widgets[e1].state = "processing"
    /\ ~widgets[e2].initial /\ widgets[e2].state = "ready"

\* C10: the calculated count is the sum of quantity over the items whose
\* _hide_in_cart is falsy and the calculated subtotal the sum of line price
\* over the items whose _ignore_price_in_subtotal is falsy, each flag applied
\* on its own.
RECURSIVE ExpectedCount(_)
ExpectedCount(items) ==
  IF items = <<>> THEN 0
  ELSE (IF Head(items).hide \in {Undefined, ""} THEN Head(items).quantity ELSE 0)
       + ExpectedCount(Tail(items))

RECURSIVE ExpectedSubtotal(_)
ExpectedSubtotal(items) ==
  IF items = <<>> THEN 0
  ELSE (IF Head(items).ignore \in {Undefined, ""} /\ Head(items).line_price # NoPrice
        THEN Head(items).line_price ELSE 0)
       + ExpectedSubtotal(Tail(items))

C11_StoreReconcileEmit ==
  [][LET gone == inflight \ inflight'
         delivered == {r \in gone : r.done /\ ~r.resp.error}
         failed == rec'.op \in {"refresh-failed", "change-failed"}
         applied == emitted' # <<>> \/ rec'.kind # "none" \/ currentCart' # currentCart
         name == IF \E r \in gone : r.kind = "change" THEN "updated" ELSE "refreshed"
         cart == addCalculatedFields(currentCart')
     IN /\ (delivered # {} /\ ~failed) => applied
        /\ applied =>
             /\ ~failed
             /\ \A r \in gone : r \in delivered /\ currentCart' = r.resp
             /\ gone = {} => currentCart' = Snapshot(server)
             /\ rec'.kind \in {"initial", "diff"}
             /\ rec'.kind = "initial" => MapSeq(dom', LAMBDA el : widgets'[el].key)
                                           = visibleKeys(currentCart')
             /\ rec'.kind = "diff" =>
                  /\ \A el \in rec'.updated : widgets'[el].item \in Range(currentCart'.items)
                  /\ Range(rec'.toAdd) \subseteq Range(visibleKeys(currentCart'))
             /\ emitted' = <<[name |-> name, cart |-> cart],
                             [name |-> "data-changed", cart |-> cart]>>]_vars

C11_Witness ==
  /\ Len(emitted) = 2
  /\ emitted[1].name = "updated" /\ emitted[2].name = "data-changed"
  /\ rec.kind = "diff" /\ rec.destroyed # {}
  /\ emitted[2].cart.items = currentCart.items

\* C12: getCart and updateCartItem always resolve, to the snapshot on a 2xx
\* answer and to an error result otherwise, and send one request per call.
C12_NeverRejects ==
  http.settled # "pending" =>
    /\ http.settled = "fulfilled"
    /\ http.requests = 1
    /\ http.outcome = "2xx" =>
         http.value = Snapshot(IF http.kind = "get" THEN http.body
                               ELSE changeItem(http.body, http.key, http.quantity))
    /\ http.outcome # "2xx" => http.value = ErrorResult

C12_Witness ==
  /\ http.settled = "fulfilled"
  /\ http.kind = "change"
  /\ http.outcome = "network-failure"
  /\ http.value.error

\* C13: while a change request of an item is pending the item stays in
\* processing, whatever other responses and refreshes complete meanwhile.
C13_PendingStaysProcessing ==
  \A r \in inflight :
    r.kind = "change" => widgets[r.el].state = "processing"

\* C14: setData renders the content again exactly when the markup computed
\* from the new data differs from the markup rendered last; when it is the
\* same the content stays as it is and only the quantity control is set; in
\* both cases the state becomes ready.
C14_SetDataRendersOnChange ==
  unit.op = "setData" =>
    LET same == generateTemplateHTML(unit.data) = unit.before.html
    IN /\ unit.w.state = "ready"
       /\ unit.w.item = unit.data
       /\ unit.w.input = unit.data.quantity
       /\ same => /\ unit.w.html = unit.before.html
                   /\ unit.w.key = unit.before.key
                   /\ unit.w.linePrice = unit.before.linePrice
       /\ ~same => /\ unit.w.html = generateTemplateHTML(unit.data)
                    /\ unit.w.key = unit.data.key
                    /\ unit.w.linePrice = shownLinePrice(unit.data)

C14_Witness ==
  /\ unit.op = "setData"
  /\ generateTemplateHTML(unit.data) = unit.before.html
  /\ unit.before.input # unit.w.input
  /\ unit.before.linePrice # shownLinePrice(unit.data)
  /\ unit.w.linePrice = unit.before.linePrice

\* C15: when a change request resolves after its item was put into removal or
\* detached, the resolution leaves the item's state as it is, on success and
\* on failure.
C15_ResolutionSparesDestroyed ==
  [][\A r \in inflight \ inflight' :
       (r.kind = "change" /\ (widgets[r.el].isDestroying \/ r.el \notin Range(dom)))
         => widgets'[r.el].state = widgets[r.el].state]_vars

\* C16: refreshCart with a cart object that is not marked error sends no
\* request and makes that object the current cart; refreshCart without one
\* sends exactly one request.
C16_OverrideSkipsFetch ==
  [][LET new == inflight' \ inflight
         gone == inflight \ inflight'
         withOverride == rec'.op = "refreshed" /\ gone = {}
         withoutOverride ==
           \/ (~connected /\ connected' /\ ~manual)
           \/ /\ nOps' = nOps + 1 /\ rec'.op = "none"
              /\ server' = server /\ widgets' = widgets
     IN /\ withOverride => /\ new = {}
                            /\ currentCart' = Snapshot(server)
                            /\ ~currentCart'.error
        /\ withoutOverride => /\ Cardinality(new) = 1
                               /\ \A r \in new : r.kind = "get" /\ ~r.done
                               /\ gone = {}
                               /\ currentCart' = currentCart]_vars

C16_Witness ==
  /\ rec.op = "refreshed"
  /\ nOps = 1
  /\ \E r \in inflight : r.kind = "get" /\ ~r.done
  /\ Cardinality(inflight) = 1
  /\ currentCart = Snapshot(server)

\* C17: every call of show asks the dialog-panel to open and then calls
\* refreshCart with the cart object it was given.
C17_ShowOpensAndRefreshes ==
  [][rec'.op = "show" =>
       /\ host'.open
       /\ \/ \E r \in inflight' \ inflight : r.kind = "get"
          \/ rec'.kind # "none" /\ currentCart' = Snapshot(server)]_vars

\* C18: connecting the panel starts a refresh exactly when the manual
\* attribute is absent; with it, no request is sent and no cart is stored
\* before refreshCart or show is called.
C18_ManualSuppressesInitialRefresh ==
  [][/\ (~connected /\ connected') =>
          IF manual THEN inflight' = inflight
          ELSE /\ Cardinality(inflight' \ inflight) = 1
               /\ \A r \in inflight' \ inflight : r.kind = "get" /\ ~r.done
               /\ inflight \subseteq inflight'
     /\ (manual /\ nOps' = 0) => (inflight' = {} /\ currentCart' = NoCart)
     /\ ~connected' => inflight' = {}]_vars

C18_Witness ==
  /\ connected /\ manual
  /\ rec.op = "show"
  /\ host.open
  /\ \E r \in inflight : r.kind = "get"

\* C19: a widget's state is always ready, processing, destroying or
\* appearing; setState with any other value leaves the state as it was, and
\* after setState(s) with an allowed s the state getter returns s.
C19_StateAlwaysAllowed ==
  unit.op # "none" =>
    /\ unit.w.state \in States
    /\ (unit.op = "setState" /\ unit.state \notin States)
         => unit.w.state = unit.before.state
    /\ (unit.op = "setState" /\ unit.state \in States)
         => unit.w.state = unit.state

\* C20: whatever show() and hide() calls were made on the cart-dialog, once
\* no animation-frame callback is pending the dialog is open (aria-hidden
\* false) exactly when the last call was show(); a hide() issued after a
\* show() leaves it closed.
C20_LastCallDecidesOpen ==
  (dialog.op # "none" /\ dialog.last # "none" /\ dialog.frames = <<>>)
    => (~dialog.ariaHidden <=> dialog.last = "show")

\* C21: whatever show() and hide() calls were made on the cart-dialog, once
\* no animation-frame callback is pending body scrolling is locked exactly
\* when the dialog is open (aria-hidden false).
C21_ScrollLockedIffOpen ==
  (dialog.op # "none" /\ dialog.frames = <<>>)
    => (dialog.scrollLocked <=> ~dialog.ariaHidden)

C23_RemovingIsTerminal ==
  [][\A el \in 1..Len(widgets) :
       (widgets[el].state = "destroying" /\ el \in Range(dom))
         => widgets'[el].state = "destroying"]_vars

\* C24: a deferred insertion adds no widget for a key that is not visible in
\* the snapshot applied last at the moment the insertion fires.
C24_InsertionOnlyOfCurrentKeys ==
  [][\A el \in Range(dom') \ Range(dom) :
       widgets'[el].key \in Range(visibleKeys(currentCart'))]_vars

\* C25: with the panel as the service's only client and every request
\* answered, once no request is in flight the current cart is the service's
\* cart, in whatever order the responses arrived.
C25_FinalSnapshotIsServerState ==
  (inflight = {} /\ currentCart # NoCart) => currentCart = Snapshot(server)

\* C26: when a remove or quantity-change intent is handled the item is set to
\* processing before the request is issued: every change request goes out
\* for the key of an item that is in processing at that moment.
C26_ProcessingBeforeRequest ==
  [][\A r \in inflight' \ inflight :
       (r.kind = "change" /\ ~r.done) =>
         /\ r.sent = "processing"
         /\ widgets'[r.el].state = "processing"
         /\ r.key = widgets'[r.el].key]_vars

C26_Witness ==
  \E r1, r2 \in inflight :
    /\ r1.kind = "change" /\ ~r1.done /\ r1.quantity = 0
    /\ r2.kind = "change" /\ ~r2.done /\ r2.quantity # 0
    /\ r1.sent = "processing" /\ r2.sent = "processing"
    /\ widgets[r1.el].state = "processing" /\ widgets[r2.el].state = "processing"

\* C27: in every reconciliation after the first, each rendered widget whose
\* key is not among the visible keys of the new snapshot is in destroying
\* when the step ends, whatever state it was in before.
C27_AbsentKeysEnterRemoving ==
  [][rec'.kind = "diff" =>
       \A el \in Range(dom) :
         widgets[el].key \notin Range(visibleKeys(currentCart'))
           => widgets'[el].state = "destroying"]_vars

\* the state getter of the el-th cart-item created, if it exists yet
stateOf(el) == IF el <= Len(widgets) THEN widgets[el].state ELSE "none"

\* C28: every widget that enters processing leaves it again, for ready or for
\* destroying, given that its request resolves in the end.
C28_ProcessingEnds ==
  \A el \in 1..MaxWidgets :
    (stateOf(el) = "processing") ~> (stateOf(el) \in {"ready", "destroying"})

\* C29: every widget on which destroyYourself was called is detached from the
\* list in the end, whether or not the end of its height transition is ever
\* reported.
C29_DestroyedIsDetached ==
  \A el \in 1..MaxWidgets :
    (el <= Len(widgets) /\ widgets[el].isDestroying) ~> (el \notin Range(dom))

C29_Witness ==
  \E el \in 1..Len(widgets) :
    /\ widgets[el].isDestroying /\ widgets[el].collapsing
    /\ el \notin Range(dom)
    /\ widgets[el].nDetach = 1
    /\ el \notin Range(rmTimers)

\* C30: every widget created in appearing reaches ready through its two
\* animation-frame callbacks with nothing else happening, unless it is put
\* into removal first; and connecting a widget that is ready again does not
\* put it back into appearing.
C30_AppearingReachesReady ==
  /\ \A el \in 1..MaxWidgets :
       (el <= Len(widgets) /\ widgets[el].state0 = "appearing")
         ~> (el <= Len(widgets)
             /\ (widgets[el].state = "ready" \/ widgets[el].isDestroying))
  /\ [][(rec'.op = "reconnect" /\ widgets[rec'.el].state = "ready") =>
          /\ widgets'[rec'.el].state = "ready"
          /\ widgets'[rec'.el].isAppearing = widgets[rec'.el].isAppearing
          /\ rafQueue' = rafQueue]_vars

C30_Witness ==
  /\ rec.op = "reconnect"
  /\ widgets[rec.el].state0 = "appearing"
  /\ widgets[rec.el].state = "ready"
  /\ ~widgets[rec.el].isDestroying
  /\ rec.el \in Range(dom)
  /\ rafQueue = <<>>

\* C31: for the appearing and for the removing animation the starting height
\* is set in one animation frame and the change to the target value is made
\* in a strictly later frame: no element has its transition triggered in the
\* frame that set its starting height.
C31_TwoFrameHandshake ==
  \A el \in 1..Len(widgets) :
    /\ widgets[el].appearLag # 0
    /\ widgets[el].destroyLag # 0

\* Position of the element el in the list s of attached elements
PosIn(s, el) == CHOOSE i \in 1..Len(s) : s[i] = el

\* Indices in newKeys, before the inserted element's key, of the keys that
\* have an element in the container when the element is inserted
RenderedBefore(e) ==
  LET idx == CHOOSE i \in 1..Len(e.newKeys) : e.newKeys[i] = widgets[e.el].key
  IN {j \in 1..(idx - 1) :
        \E i \in 1..Len(e.before) : widgets[e.before[i]].key = e.newKeys[j]}

\* The inserted element directly follows the first element that carries the
\* nearest preceding key
FollowsNearest(e) ==
  LET near == CHOOSE j \in RenderedBefore(e) : \A i \in RenderedBefore(e) : i <= j
      pos == PosIn(e.after, e.el)
  IN /\ pos > 1
     /\ widgets[e.after[pos - 1]].key = e.newKeys[near]
     /\ \A i \in 1..(pos - 2) : widgets[e.after[i]].key # e.newKeys[near]

\* C32 as stated: a new item is inserted right after the nearest rendered
\* widget whose key precedes it in the visible list, and appended at the end
\* when no preceding key is rendered.
C32_InsertAfterNearestOrAppend ==
  \A n \in 1..Len(rec.inserts) :
    LET e == rec.inserts[n]
    IN /\ Without(e.after, e.el) = e.before
       /\ IF RenderedBefore(e) # {}
          THEN FollowsNearest(e)
          ELSE PosIn(e.after, e.el) = Len(e.after)

\* C32 amended: a new item is inserted right after the nearest rendered
\* widget whose key precedes it in the visible list; when no preceding key is
\* rendered it is put first if it is the first item of the visible list and
\* appended at the end otherwise.
C32_InsertAfterNearestFirstOrAppend ==
  \A n \in 1..Len(rec.inserts) :
    LET e == rec.inserts[n]
    IN /\ Without(e.after, e.el) = e.before
       /\ IF RenderedBefore(e) # {}
          THEN FollowsNearest(e)
          ELSE IF e.newKeys[1] = widgets[e.el].key
               THEN PosIn(e.after, e.el) = 1
               ELSE PosIn(e.after, e.el) = Len(e.after)

\* One timer puts a first item before a rendered list and a later item after
\* its rendered predecessor
C32_Witness ==
  /\ Len(rec.inserts) = 2
  /\ rec.inserts[1].before # <<>>
  /\ RenderedBefore(rec.inserts[1]) = {}
  /\ PosIn(rec.inserts[1].after, rec.inserts[1].el) = 1
  /\ RenderedBefore(rec.inserts[2]) # {}
  /\ PosIn(rec.inserts[2].after, rec.inserts[2].el) = Len(rec.inserts[2].after)

\* C33: within one reconciliation every destroyYourself call for a removed
\* key is made before any new widget of that reconciliation is inserted:
\* when a widget is inserted, no element its reconciliation removes is still
\* outside a destroy cycle.
C33_RemovalsBeforeInsertions ==
  \A n \in 1..Len(rec.inserts) :
    (rec.destroyed \cup rec.removed) \cap rec.inserts[n].live = {}

C33_Witness ==
  /\ rec.inserts # <<>>
  /\ \E el \in rec.removed :
       /\ el \in Range(rec.inserts[1].before)
       /\ widgets[el].key \notin Range(rec.inserts[1].newKeys)
       /\ widgets[el].nAnim = 1

\* C34: after every successful replacement of the snapshot the panel's state
\* is empty if the snapshot has no visible item and has-items otherwise,
\* whatever the widgets are doing; and with an empty visible list every
\* rendered widget is put into removal and none is added.
C34_EmptyStateFromSnapshot ==
  [][rec'.kind \in {"initial", "diff"} =>
       /\ panelState' = IF visibleKeys(currentCart') = <<>> THEN "empty"
                        ELSE "has-items"
       /\ visibleKeys(currentCart') = <<>> =>
            /\ \A el \in Range(dom') : widgets'[el].state = "destroying"
            /\ Len(widgets') = Len(widgets)
            /\ addTimers' = addTimers]_vars

\* C35: #isInitialRender is only ever cleared, never set again: the bulk
\* render without animation runs at most once, on the first reconciliation,
\* and every later reconciliation takes the remove/update/add path.
C35_InitialRenderOnce ==
  [][/\ ~isInitialRender => ~isInitialRender'
     /\ rec'.op \in {"refreshed", "updated"} =>
          IF isInitialRender
          THEN /\ rec'.kind = "initial"
               /\ ~isInitialRender'
               /\ \A el \in Range(dom') :
                    el > Len(widgets) /\ widgets'[el].initial /\ widgets'[el].state = "ready"
               /\ rafQueue' = rafQueue /\ addTimers' = addTimers
          ELSE /\ rec'.kind = "diff"
               /\ Len(widgets') = Len(widgets)
               /\ dom' = dom]_vars

C35_Witness ==
  /\ ~isInitialRender
  /\ rec.op = "updated" /\ rec.kind = "diff"
  /\ rec.destroyed # {}
  /\ \E el \in Range(dom) : widgets[el].initial /\ widgets[el].state = "ready"

\* C36: the count and the subtotal written to the page's displays for a
\* snapshot equal the calculated_count and calculated_subtotal that the
\* data-changed notification carries for the same snapshot.
C36_DisplaysMatchNotification ==
  \A i \in 1..Len(emitted) :
    emitted[i].name = "data-changed" =>
      /\ emitted[i].cart.items = currentCart.items
      /\ shownCount = emitted[i].cart.calculated_count
      /\ shownSubtotal = emitted[i].cart.calculated_subtotal

C36_Witness ==
  \E i \in 1..Len(emitted) :
    /\ emitted[i].name = "data-changed"
    /\ \E n \in 1..Len(currentCart.items) : Truthy(currentCart.items[n].hide)
    /\ \E n \in 1..Len(currentCart.items) : currentCart.items[n].quantity = 2
    /\ shownCount = 3
    /\ shownSubtotal = emitted[i].cart.calculated_subtotal
    /\ shownSubtotal > shownCount

\* The fields #addCalculatedFields adds to its copy of the cart
CalculatedFields == {"calculated_count", "calculated_subtotal"}

\* C37: the stored snapshot is only ever replaced as a whole, by the object
\* the caller or the service supplied; computing and broadcasting the
\* calculated count and subtotal makes a new object and leaves the stored
\* one without these fields.
C37_SnapshotReplacedWhole ==
  [][/\ DOMAIN currentCart' \cap CalculatedFields = {}
     /\ currentCart' # currentCart =>
          /\ rec'.op \in {"refreshed", "updated"}
          /\ \/ \E r \in inflight \ inflight' : currentCart' = r.resp
             \/ inflight' = inflight /\ currentCart' = Snapshot(server)
     /\ \A i \in 1..Len(emitted') :
          /\ CalculatedFields \subseteq DOMAIN emitted'[i].cart
          /\ emitted'[i].cart.items = currentCart'.items
          /\ emitted'[i].cart.error = currentCart'.error]_vars

C37_Witness ==
  /\ Len(emitted) = 2
  /\ rec.op = "updated"
  /\ DOMAIN currentCart = {"error", "items"}
  /\ currentCart.items # <<>>
  /\ emitted[2].cart.calculated_count > 0
  /\ emitted[2].cart.items = currentCart.items
  /\ currentCart # Snapshot(server)

\* C38: the promise returned by refreshCart never rejects and no exception
\* escapes the intent handlers, whatever the shape of the snapshot the
\* service returns, a non-error snapshot without an items list included.
C38_NoRejectionNoEscape ==
  rec.op \notin {"refresh-rejected", "change-escaped"}

\* C39: an item identified only by its id has the same identity as one
\* identified by key: a reconciliation after the first whose snapshot still
\* contains the item calls setData on its widget and neither removes it nor
\* adds it again.
C39_IdIsKey ==
  [][rec'.kind = "diff" =>
       \A el \in Range(dom) :
         (/\ ~widgets[el].isDestroying
          /\ \E i \in 1..Len(currentCart'.items) :
               itemKey(currentCart'.items[i]) = itemKey(widgets[el].item))
         => /\ el \in rec'.updated
            /\ el \notin rec'.destroyed
            /\ itemKey(widgets[el].item) \notin Range(rec'.toAdd)]_vars

\* C40: emitting a notification calls every listener registered for it
\* exactly once and in registration order (a listener registered twice is
\* registered once), and a listener that throws neither keeps the remaining
\* listeners from running nor reaches the code that emitted.
C40_EveryListenerOnceInOrder ==
  /\ \A event \in Events :
       \A i, j \in 1..Len(emitter.events[event]) :
         i # j => emitter.events[event][i] # emitter.events[event][j]
  /\ emitter.op = "emit" =>
       /\ emitter.run.log = emitter.before
       /\ ~emitter.run.escaped

====
